---- MODULE Spec2Model ----
(***************************************************************************)
(* A model of the metadata tooling for the schema-guided dialogue corpus:  *)
(* the traversal layer (data_utils.py), the taxonomy extractors, the       *)
(* dialogue classifier and the assembler (_generate_metadata.py) and the   *)
(* accessor module (metadata.py).                                          *)
(*                                                                         *)
(* Strings (intent names, slot names, possible values) are sequences of    *)
(* character codes, so that str.isdigit, int(), slicing and the string     *)
(* order are computed, not assumed.  A dialogue ID "<f>_<i>" is the pair   *)
(* <<f, i>> of the two integers its two components denote.  A dict is a    *)
(* function whose DOMAIN is the key set, a list is a sequence, a set is a   *)
(* set.  An optional value is a sequence of length at most one.            *)
(***************************************************************************)
EXTENDS Integers, Sequences, FiniteSets, TLC

VARIABLES
    schema,         \* schema[split]: the list of service dicts of <split>/schema.json
    files,          \* files[split]: dict file index -> list of dialogue dicts (dialogues_NNN.json)
    setOrder,       \* the order in which this process iterates a set ("asc" or "desc")
    ret,            \* the last call of a library function: its arguments and what it produced
    it,             \* the state of the file_iterator generator being consumed
    pc,             \* the position of the assembler's __main__ block
    asm,            \* the locals of the assembler's __main__ block
    metadataFile,   \* metadata.json on disk
    acc             \* the accessor module (metadata.py) once imported

vars == <<schema, files, setOrder, ret, it, pc, asm, metadataFile, acc>>

(***************************************************************************)
(* Bounds of the model.                                                    *)
(***************************************************************************)
MaxVals == 3        \* longest possible-value list of a slot in the slot universe

(***************************************************************************)
(* Strings.                                                                *)
(***************************************************************************)
STR_True  == <<84, 114, 117, 101>>
STR_False == <<70, 97, 108, 115, 101>>
STR_0     == <<48>>
STR_1     == <<49>>
STR_2     == <<50>>
STR_01    == <<48, 49>>
STR_1a    == <<49, 97>>
STR_Empty == <<>>
STR_NONE  == <<78, 79, 78, 69>>

Min(a, b) == IF a <= b THEN a ELSE b

\* str < str: Python compares strings code point by code point.
StrLess(a, b) ==
    \E k \in 0..Min(Len(a), Len(b)) :
        /\ \A j \in 1..k : a[j] = b[j]
        /\ \/ (k = Len(a) /\ k < Len(b))
           \/ (k < Len(a) /\ k < Len(b) /\ a[k + 1] < b[k + 1])

\* str.isdigit(): a non-empty string all of whose characters are digits.
isdigit(s) == Len(s) > 0 /\ \A i \in 1..Len(s) : s[i] \in 48..57

\* int(s) for a string of digits.
RECURSIVE int(_)
int(s) == IF Len(s) = 0 THEN 0
          ELSE 10 * int(SubSeq(s, 1, Len(s) - 1)) + (s[Len(s)] - 48)

\* x in list
InList(x, list) == \E i \in 1..Len(list) : list[i] = x

Range(seq) == { seq[i] : i \in 1..Len(seq) }

None == <<>>
Some(v) == <<v>>

(***************************************************************************)
(* Sets, lists and sorting.                                                *)
(***************************************************************************)
\* The elements of a set of strings (or of integer tuples) in increasing order.
Ascending(S) ==
    [i \in 1..Cardinality(S) |->
        CHOOSE x \in S : Cardinality({ y \in S : StrLess(y, x) }) = i - 1]

Reverse(seq) == [i \in 1..Len(seq) |-> seq[Len(seq) + 1 - i]]

\* The elements of a set in one of the orders a process may iterate it in (the
\* order follows the hashes of the elements, which for strings change from one
\* process to the next).
iteration(S, order) == IF order = "asc" THEN Ascending(S) ELSE Reverse(Ascending(S))

\* list(S) for a set S of strings or of ID pairs: the elements in the order in
\* which this process iterates the set.
list(S) == iteration(S, setOrder)

\* sorted(l, key=...), with keys[i] the key of l[i]: Python's sort is stable,
\* elements of equal key keep the order they have in l.  Keys are strings or
\* tuples of integers.
sorted(l, keys) ==
    LET n == Len(l)
        pos(i) == 1 + Cardinality({ j \in 1..n :
                        \/ StrLess(keys[j], keys[i])
                        \/ (keys[j] = keys[i] /\ j < i) })
    IN  [p \in 1..n |-> l[CHOOSE i \in 1..n : pos(i) = p]]

n_chars == 10

\* alphabetical_sort_key: name[:n_chars]
alphabetical_sort_key(name) == SubSeq(name, 1, Min(n_chars, Len(name)))

\* sorted(l, key=alphabetical_sort_key)
sorted_alphabetical(l) == sorted(l, [i \in 1..Len(l) |-> alphabetical_sort_key(l[i])])

(***************************************************************************)
(* Schema traversal and the intent taxonomy.                               *)
(***************************************************************************)
_SPLIT_NAMES == <<"train", "dev", "test">>

\* schema_iterator(split): the services of the split's schema, in file order.
schema_iterator(split) == schema[split]

\* The intent dicts met by `for service in schema_iterator(split):
\* for intent in service['intents']`.
SchemaIntentDicts(split) ==
    UNION { Range(schema_iterator(split)[i].intents) :
                i \in 1..Len(schema_iterator(split)) }

\* A plausible slip: the else of line 70 lost, every name added to 'search'.
get_schema_intents_noelse(split) ==
    [transactional |-> { intent.name : intent \in
                            { x \in SchemaIntentDicts(split) : x.is_transactional } },
     search |-> { intent.name : intent \in SchemaIntentDicts(split) }]

\* get_schema_intents(split)
get_schema_intents(split) ==
    [transactional |-> { intent.name : intent \in
                            { x \in SchemaIntentDicts(split) : x.is_transactional } },
     search |-> { intent.name : intent \in
                            { x \in SchemaIntentDicts(split) : ~x.is_transactional } }]

\* The last split of _SPLIT_NAMES whose schema declares the intent name.
LastDeclaring(name) ==
    _SPLIT_NAMES[CHOOSE k \in 1..Len(_SPLIT_NAMES) :
        /\ name \in get_schema_intents(_SPLIT_NAMES[k]).transactional
                        \cup get_schema_intents(_SPLIT_NAMES[k]).search
        /\ \A j \in (k + 1)..Len(_SPLIT_NAMES) :
                name \notin get_schema_intents(_SPLIT_NAMES[j]).transactional
                                \cup get_schema_intents(_SPLIT_NAMES[j]).search]

\* A plausible variant: a later split's classification of a name replaces an
\* earlier split's, each name kept under the flags of the last split declaring it.
get_intents_by_type_lastwins ==
    LET names == UNION { get_schema_intents(_SPLIT_NAMES[k]).transactional
                            \cup get_schema_intents(_SPLIT_NAMES[k]).search :
                                k \in 1..Len(_SPLIT_NAMES) }
    IN  [transactional |-> sorted_alphabetical(list(
            { n \in names : n \in get_schema_intents(LastDeclaring(n)).transactional })),
         search |-> sorted_alphabetical(list(
            { n \in names : n \in get_schema_intents(LastDeclaring(n)).search }))]

\* A plausible slip: the buckets assigned instead of updated, so that only the
\* last split's intents remain.
get_intents_by_type_assign ==
    LET last == _SPLIT_NAMES[Len(_SPLIT_NAMES)]
    IN  [transactional |-> sorted_alphabetical(list(get_schema_intents(last).transactional)),
         search |-> sorted_alphabetical(list(get_schema_intents(last).search))]

\* get_intents_by_type(): the union over the splits of each bucket, as sorted lists.
get_intents_by_type ==
    LET transactional_intents ==
            UNION { get_schema_intents(_SPLIT_NAMES[k]).transactional :
                        k \in 1..Len(_SPLIT_NAMES) }
        search_intents ==
            UNION { get_schema_intents(_SPLIT_NAMES[k]).search :
                        k \in 1..Len(_SPLIT_NAMES) }
    IN  [transactional |-> sorted_alphabetical(list(transactional_intents)),
         search |-> sorted_alphabetical(list(search_intents))]

\* tests/test_utils.py count_intents(): the number of distinct intent names of
\* all the schemas.
count_intents ==
    Cardinality(UNION { { intent.name : intent \in SchemaIntentDicts(split) } :
                            split \in {"train", "dev", "test"} })

(***************************************************************************)
(* The traversal layer (data_utils.py).  A file path is the pair           *)
(* <<split, file index>>; files[split][f] is the list of dialogues of      *)
(* <split>/dialogues_<f>.json.                                             *)
(***************************************************************************)
RECURSIVE Flatten(_)
Flatten(seqs) == IF Len(seqs) = 0 THEN <<>> ELSE Head(seqs) \o Flatten(Tail(seqs))

\* The two integers of a dialogue ID: int(dial_id.split("_")[0]) and [1].
IdFileIndex(dial_id) == dial_id[1]
IdDialIndex(dial_id) == dial_id[2]

\* get_filenames(split): glob lists the split's dialogue files in no particular
\* order.
get_filenames(split) ==
    LET indexes == list({ <<f>> : f \in DOMAIN files[split] })
    IN  [k \in 1..Len(indexes) |-> <<split, indexes[k][1]>>]

\* json.load of a dialogue file.
dial_bunch(filename) == files[filename[1]][filename[2]]

\* split_iterator(split) without return_only: every (fp, dial) of the split, file
\* after file.
split_iterator(split) ==
    LET fps == get_filenames(split)
    IN  Flatten([k \in 1..Len(fps) |->
            [j \in 1..Len(dial_bunch(fps[k])) |-> <<fps[k], dial_bunch(fps[k])[j]>>]])

\* corpus_iterator(): data_utils iterates the splits in its own order.
corpus_iterator ==
    split_iterator("train") \o split_iterator("test") \o split_iterator("dev")

\* missing_dialogues of file_iterator: the last dialogue's index + 1 differs from
\* the number of dialogues.
missing_dialogues(bunch) == ~(IdDialIndex(bunch[Len(bunch)].dialogue_id) + 1 = Len(bunch))

\* file_iterator(filename, return_only), run to exhaustion: the (filename, dial)
\* pairs it yields.  With a non-empty return_only and no missing dialogue, the
\* dialogues are taken by position, bunch[int(index)], in the set's iteration
\* order; with a missing dialogue the file is scanned and the IDs compared (the
\* scan ends once every requested ID was met, which leaves the yields as they
\* are); with no or an empty return_only every dialogue is yielded.
file_iterator(filename, return_only) ==
    LET bunch == dial_bunch(filename)
        wanted == list(return_only)
    IN  IF return_only # {}
        THEN IF ~missing_dialogues(bunch)
             THEN [k \in 1..Len(wanted) |->
                        <<filename, bunch[IdDialIndex(wanted[k]) + 1]>>]
             ELSE LET hits == SelectSeq(bunch, LAMBDA d : d.dialogue_id \in return_only)
                  IN  [k \in 1..Len(hits) |-> <<filename, hits[k]>>]
        ELSE [k \in 1..Len(bunch) |-> <<filename, bunch[k]>>]

(***************************************************************************)
(* file_iterator as the generator it is.  A generator object g records the *)
(* arguments, how far its loop has come (pos), the `returned` set of the   *)
(* scanning loop and the pairs handed to the consumer so far.  The body    *)
(* runs from one yield to the next each time the consumer asks for an      *)
(* item; the file is read-only, so the header of lines 57-62 gives the     *)
(* same values at every resumption.                                        *)
(***************************************************************************)
new_file_iterator(filename, return_only) ==
    [state |-> "suspended", filename |-> filename, return_only |-> return_only,
     pos |-> 0, returned |-> {}, yielded |-> <<>>]

\* A plausible slip: the index taken one too far (a 1-based lookup).
indexed_resume_offbyone(g, bunch) ==
    LET wanted == list(g.return_only)
    IN  IF g.pos >= Len(wanted)
        THEN [g EXCEPT !.state = "done"]
        ELSE IF IdDialIndex(wanted[g.pos + 1]) + 2 > Len(bunch)
             THEN [g EXCEPT !.state = "IndexError"]
             ELSE [g EXCEPT !.pos = @ + 1,
                            !.yielded = Append(@, <<g.filename,
                                bunch[IdDialIndex(wanted[g.pos + 1]) + 2]>>)]

\* Lines 66-67: the next ID of return_only, in the set's iteration order, is
\* turned into a position; dial_bunch[dial_idx] is 0-based and raises IndexError
\* past the end of the list.
indexed_resume(g, bunch) ==
    LET wanted == list(g.return_only)
    IN  IF g.pos >= Len(wanted)
        THEN [g EXCEPT !.state = "done"]
        ELSE IF IdDialIndex(wanted[g.pos + 1]) + 1 > Len(bunch)
             THEN [g EXCEPT !.state = "IndexError"]
             ELSE [g EXCEPT !.pos = @ + 1,
                            !.yielded = Append(@, <<g.filename,
                                bunch[IdDialIndex(wanted[g.pos + 1]) + 1]>>)]

\* The position of the first dialogue after `pos` whose ID is requested, or 0.
next_hit(bunch, pos, return_only) ==
    IF \E j \in (pos + 1)..Len(bunch) : bunch[j].dialogue_id \in return_only
    THEN CHOOSE j \in (pos + 1)..Len(bunch) :
            /\ bunch[j].dialogue_id \in return_only
            /\ \A h \in (pos + 1)..(j - 1) : bunch[h].dialogue_id \notin return_only
    ELSE 0

\* A plausible slip: the break of lines 75-76 lost, the scan always run to the
\* end of the file.
scan_resume_nobreak(g, bunch, hit) ==
    IF hit = 0
    THEN [g EXCEPT !.state = "done", !.pos = Len(bunch)]
    ELSE [g EXCEPT !.pos = hit,
                   !.returned = @ \cup {bunch[hit].dialogue_id},
                   !.yielded = Append(@, <<g.filename, bunch[hit]>>)]

\* Lines 69-76: resumed after a yield, the loop first tests returned ==
\* return_only and breaks; otherwise it examines the dialogues that follow until
\* one has a requested ID, or the file ends.  pos counts the dialogues examined.
scan_resume(g, bunch, hit) ==
    IF g.returned = g.return_only
    THEN [g EXCEPT !.state = "done"]
    ELSE IF hit = 0
         THEN [g EXCEPT !.state = "done", !.pos = Len(bunch)]
         ELSE [g EXCEPT !.pos = hit,
                        !.returned = @ \cup {bunch[hit].dialogue_id},
                        !.yielded = Append(@, <<g.filename, bunch[hit]>>)]

\* Lines 78-80: every dialogue, in file order.
all_resume(g, bunch) ==
    IF g.pos >= Len(bunch)
    THEN [g EXCEPT !.state = "done"]
    ELSE [g EXCEPT !.pos = @ + 1,
                   !.yielded = Append(@, <<g.filename, bunch[g.pos + 1]>>)]

\* One resumption of the generator: `if return_only` is false for None and for
\* the empty set alike.
resume_branches(g, bunch) ==
    IF g.return_only # {}
    THEN IF ~missing_dialogues(bunch)
         THEN indexed_resume(g, bunch)
         ELSE scan_resume(g, bunch, next_hit(bunch, g.pos, g.return_only))
    ELSE all_resume(g, bunch)

resume_file_iterator(g) == resume_branches(g, dial_bunch(g.filename))

\* dialogue_iterator with the two filters exchanged.
dialogue_iterator_swapped(dialogue, user, system) ==
    LET filter == IF ~user THEN "SYSTEM" ELSE IF ~system THEN "USER" ELSE ""
    IN  SelectSeq(dialogue.turns, LAMBDA turn : ~(filter # "" /\ turn.speaker = filter))

\* dialogue_iterator(dialogue, user, system), for at least one speaker requested:
\* the turns whose speaker is not the filtered one.
dialogue_iterator(dialogue, user, system) ==
    LET filter == IF ~user THEN "USER" ELSE IF ~system THEN "SYSTEM" ELSE ""
    IN  SelectSeq(dialogue.turns, LAMBDA turn : ~(filter # "" /\ turn.speaker = filter))

\* get_dialogue_intents(dialogue) (exclude_none=True): the active intents of the
\* user frames other than NONE.
get_dialogue_intents(dialogue) ==
    LET turns == dialogue_iterator(dialogue, TRUE, FALSE)
    IN  UNION { { turns[k].frames[j].state.active_intent : j \in 1..Len(turns[k].frames) } :
                    k \in 1..Len(turns) } \ {STR_NONE}

(***************************************************************************)
(* The dialogue classifier and the intent-type filter.                     *)
(***************************************************************************)
\* d[key] of a defaultdict(list) read after the fact.
GetList(d, key) == IF key \in DOMAIN d THEN d[key] ELSE <<>>

\* The (transactional, search) flags after the frames of one user turn.
RECURSIVE FrameFlags(_, _, _)
FrameFlags(frames, flags, intents_mapping) ==
    IF Len(frames) = 0 THEN flags
    ELSE LET active_intent == Head(frames).state.active_intent
             next == IF active_intent # STR_NONE
                     THEN IF InList(active_intent, intents_mapping.transactional)
                          THEN <<TRUE, flags[2]>>
                          ELSE <<flags[1], TRUE>>
                     ELSE flags
         IN  FrameFlags(Tail(frames), next, intents_mapping)

\* The flags after the user turns, scanned until both flags are set (the break of
\* line 481).
RECURSIVE TurnFlags(_, _, _)
TurnFlags(turns, flags, intents_mapping) ==
    IF Len(turns) = 0 THEN flags
    ELSE LET after == FrameFlags(Head(turns).frames, flags, intents_mapping)
         IN  IF after[1] /\ after[2] THEN after
             ELSE TurnFlags(Tail(turns), after, intents_mapping)

\* A plausible slip: a dialogue with no active intent labelled 'search'.
DialogueLabel_nointent(dial, intents_mapping) ==
    LET flags == TurnFlags(dialogue_iterator(dial, TRUE, FALSE), <<FALSE, FALSE>>,
                           intents_mapping)
    IN  IF flags[1] /\ ~flags[2] THEN "transactional"
        ELSE IF ~flags[1] THEN "search"
        ELSE "mixed_intent"

\* The bucket of one dialogue (lines 472-488).
DialogueLabel(dial, intents_mapping) ==
    LET flags == TurnFlags(dialogue_iterator(dial, TRUE, FALSE), <<FALSE, FALSE>>,
                           intents_mapping)
    IN  IF flags[1] /\ ~flags[2] THEN "transactional"
        ELSE IF flags[2] /\ ~flags[1] THEN "search"
        ELSE "mixed_intent"

\* The splits before position k of _SPLIT_NAMES that have a dialogue: the keys of
\* dialogues_by_type when split k is reached.
EarlierKeys(k) == { _SPLIT_NAMES[j] : j \in { i \in 1..(k - 1) : Len(split_iterator(_SPLIT_NAMES[i])) > 0 } }

\* get_dialogues_by_type(intents_mapping).  The loop of lines 490-491 runs over the
\* keys of the outer dict, the split names seen so far: it sorts the (empty) lists
\* dialogues_by_type[split][<split name>] that it thereby creates and leaves the
\* three label buckets in traversal order; for a split without dialogues that
\* follows one with dialogues it inserts into the dict it iterates, a RuntimeError.
get_dialogues_by_type(intents_mapping) ==
    LET label(pair) == DialogueLabel(pair[2], intents_mapping)
        bucket(split, l) ==
            LET hits == SelectSeq(split_iterator(split), LAMBDA pair : label(pair) = l)
            IN  [k \in 1..Len(hits) |-> hits[k][2].dialogue_id]
        labels(split) == { label(split_iterator(split)[k]) :
                                k \in 1..Len(split_iterator(split)) }
        raises == \E k \in 1..Len(_SPLIT_NAMES) :
                    /\ Len(split_iterator(_SPLIT_NAMES[k])) = 0
                    /\ EarlierKeys(k) # {}
        inner(k) ==
            LET split == _SPLIT_NAMES[k]
            IN  [key \in labels(split) \cup EarlierKeys(k) \cup {split} |->
                    IF key \in labels(split) THEN bucket(split, key) ELSE <<>>]
    IN  IF raises THEN [outcome |-> "RuntimeError"]
        ELSE [outcome |-> "returned",
              value |-> [split \in { _SPLIT_NAMES[k] : k \in
                            { i \in 1..Len(_SPLIT_NAMES) :
                                Len(split_iterator(_SPLIT_NAMES[i])) > 0 } } |->
                          inner(CHOOSE k \in 1..Len(_SPLIT_NAMES) : _SPLIT_NAMES[k] = split)]]

\* The dialogue IDs filter_by_intent_type keeps, per file (a defaultdict(set): a
\* file is a key only if one of its dialogues is kept).
FilteredIds(split, transactional, search) ==
    LET all_intents == get_intents_by_type
        transactional_intents == Range(all_intents.transactional)
        search_intents == Range(all_intents.search)
        keeps(dial) ==
            LET intents == get_dialogue_intents(dial)
            IN  IF transactional /\ ~search THEN intents \subseteq transactional_intents
                ELSE IF search /\ ~transactional THEN intents \subseteq search_intents
                ELSE ~(intents \subseteq transactional_intents)
                        /\ ~(intents \subseteq search_intents)
        pairs == split_iterator(split)
        kept == { k \in 1..Len(pairs) : keeps(pairs[k][2]) }
    IN  [fp \in { pairs[k][1] : k \in kept } |->
            { pairs[k][2].dialogue_id : k \in { j \in kept : pairs[j][1] = fp } }]

\* The files a call of filter_by_intent_type has opened when it ends: the three
\* schemas (get_intents_by_type) and the dialogue files of the split.
SchemaFiles == { _SPLIT_NAMES[k] : k \in 1..Len(_SPLIT_NAMES) }

NothingRead == [schemas |-> {}, dialogues |-> {}]

\* A plausible slip: the argument check made after the taxonomy is loaded.
filter_by_intent_type_latecheck(split, transactional, search) ==
    IF ~transactional /\ ~search
    THEN [outcome |-> "ValueError",
          reads |-> [schemas |-> SchemaFiles, dialogues |-> {}]]
    ELSE [outcome |-> "returned",
          value |-> FilteredIds(split, transactional, search),
          reads |-> [schemas |-> SchemaFiles,
                     dialogues |-> Range(get_filenames(split))]]

\* filter_by_intent_type(split, transactional, search)
filter_by_intent_type(split, transactional, search) ==
    IF ~transactional /\ ~search
    THEN [outcome |-> "ValueError", reads |-> NothingRead]
    ELSE [outcome |-> "returned",
          value |-> FilteredIds(split, transactional, search),
          reads |-> [schemas |-> SchemaFiles,
                     dialogues |-> Range(get_filenames(split))]]

(***************************************************************************)
(* Entity slots.  A nested dict is a function service -> intent -> set.    *)
(***************************************************************************)
\* An ordered list of the distinct file paths of the pairs, by first appearance:
\* the key order of the defaultdict filter_by_intent_type fills.
RECURSIVE KeysInOrder(_, _)
KeysInOrder(pairs, kept) ==
    IF Len(pairs) = 0 THEN <<>>
    ELSE IF Head(pairs)[1] \in kept
         THEN <<Head(pairs)[1]>> \o KeysInOrder(Tail(pairs), kept \ {Head(pairs)[1]})
         ELSE KeysInOrder(Tail(pairs), kept)

\* get_file_map(list(return_only), split).keys(): the backing file of each ID,
\* a key from the ID's first appearance on.
file_map_keys(ids, split) ==
    KeysInOrder([k \in 1..Len(ids) |-> << <<split, IdFileIndex(ids[k])>> >>],
                { <<split, IdFileIndex(ids[k])>> : k \in 1..Len(ids) })

\* split_iterator(split, return_only), run to exhaustion, for IDs whose backing
\* files exist: `if return_only` is false for None and for the empty set alike,
\* and then every dialogue of the split is yielded (lines 90-95); otherwise each
\* backing file is iterated for its IDs (lines 86-88).
split_iterator_only(split, return_only) ==
    IF return_only # {}
    THEN Flatten([k \in 1..Len(file_map_keys(list(return_only), split)) |->
            file_iterator(file_map_keys(list(return_only), split)[k],
                { id \in return_only :
                    IdFileIndex(id) = file_map_keys(list(return_only), split)[k][2] })])
    ELSE split_iterator(split)

\* Lines 354-358: the mixed filter's mapping, updated with the search-only
\* filter's.
filtered_update(mixed, search_only) ==
    [file_id \in DOMAIN mixed \cup DOMAIN search_only |->
        (IF file_id \in DOMAIN mixed THEN mixed[file_id] ELSE {})
        \cup (IF file_id \in DOMAIN search_only THEN search_only[file_id] ELSE {})]

\* filtered_dialogues of _get_entity_slots (lines 352-358).
filtered_dialogues(split) ==
    filtered_update(filter_by_intent_type(split, TRUE, TRUE).value,
                    filter_by_intent_type(split, FALSE, TRUE).value)

\* The keys of a dict that received the files of `mixed` and then those of
\* `search_only`, each in traversal order.
filtered_keys(pairs, mixed, search_only) ==
    KeysInOrder(pairs, mixed) \o KeysInOrder(pairs, search_only \ mixed)

\* filtered_dialogues.keys() (line 364)
filtered_files(split) ==
    filtered_keys(split_iterator(split),
                  DOMAIN filter_by_intent_type(split, TRUE, TRUE).value,
                  DOMAIN filter_by_intent_type(split, FALSE, TRUE).value)

\* Lines 364-365: the (file, dialogue) pairs file_iterator yields for each file.
selected_dialogues(fps, filtered) ==
    Flatten([k \in 1..Len(fps) |-> file_iterator(fps[k], filtered[fps[k]])])

\* A plausible variant: every frame of a system turn looked at, not the first.
system_first_frames_all(dials) ==
    LET turns == Flatten([k \in 1..Len(dials) |->
                            dialogue_iterator(dials[k][2], FALSE, TRUE)])
    IN  Flatten([k \in 1..Len(turns) |-> turns[k].frames])

\* Lines 366-367: turn['frames'][0] of every system turn of those dialogues.
system_first_frames(dials) ==
    LET turns == Flatten([k \in 1..Len(dials) |->
                            dialogue_iterator(dials[k][2], FALSE, TRUE)])
    IN  [k \in 1..Len(turns) |-> turns[k].frames[1]]

\* Lines 367-371: the frame has a service call to a search intent and a
\* non-empty result list.
successful_search_calls(frames, search_intents) ==
    SelectSeq(frames, LAMBDA frame :
        /\ "service_call" \in DOMAIN frame
        /\ frame.service_call.method \in search_intents
        /\ Len(frame.service_results) > 0)

\* The frames the loop of lines 364-371 lets through, in the order it meets them.
qualifying_frames(split) ==
    successful_search_calls(
        system_first_frames(
            selected_dialogues(filtered_files(split), filtered_dialogues(split))),
        Range(get_intents_by_type.search))

\* {entry['slot'] for entry in frame['slots']}
mentioned_slots(frame) == { frame.slots[k].slot : k \in 1..Len(frame.slots) }

\* map[service][intent] = value
SetEntry(map, service, intent, value) ==
    LET inner == IF service \in DOMAIN map THEN map[service] ELSE <<>>
    IN  (service :> ((intent :> value) @@ inner)) @@ map

HasEntry(map, service, intent) ==
    service \in DOMAIN map /\ intent \in DOMAIN map[service]

\* A plausible slip: the running set united with, not intersected with, the
\* slots of the frame.
entity_step_union(entity_slots_map, frame) ==
    SetEntry(entity_slots_map, frame.service, frame.service_call.method,
        IF HasEntry(entity_slots_map, frame.service, frame.service_call.method)
        THEN entity_slots_map[frame.service][frame.service_call.method]
                \cup mentioned_slots(frame)
        ELSE mentioned_slots(frame))

\* Lines 372-377 for one frame let through: the first frame of a (service,
\* intent) pair seeds its set, each later one intersects it.
entity_step(entity_slots_map, frame) ==
    SetEntry(entity_slots_map, frame.service, frame.service_call.method,
        IF HasEntry(entity_slots_map, frame.service, frame.service_call.method)
        THEN entity_slots_map[frame.service][frame.service_call.method]
                \cap mentioned_slots(frame)
        ELSE mentioned_slots(frame))

\* The loop of lines 364-377 over the frames let through.
RECURSIVE entity_fold(_, _)
entity_fold(frames, entity_slots_map) ==
    IF Len(frames) = 0 THEN entity_slots_map
    ELSE entity_fold(Tail(frames), entity_step(entity_slots_map, Head(frames)))

\* _get_entity_slots(split)
_get_entity_slots(split) == entity_fold(qualifying_frames(split), <<>>)

\* Lines 406-414 for one service of this_split_slots.  The test of line 411 asks
\* whether the intent is a key of the dict being iterated, which it always is, so
\* every intent takes the branch of line 414: the set of entity_slots (a
\* defaultdict(set), empty if the intent is new) is updated with, that is united
\* with, the split's set.
merge_service(entity_slots, this_split_slots, service) ==
    IF service \notin DOMAIN entity_slots
    THEN this_split_slots[service]
    ELSE [intent \in DOMAIN entity_slots[service] \cup DOMAIN this_split_slots[service] |->
            IF intent \in DOMAIN this_split_slots[service]
            THEN IF intent \notin DOMAIN this_split_slots[service]
                 THEN this_split_slots[service][intent]
                 ELSE (IF intent \in DOMAIN entity_slots[service]
                       THEN entity_slots[service][intent] ELSE {})
                      \cup this_split_slots[service][intent]
            ELSE entity_slots[service][intent]]

\* Lines 403-414 for one split.
merge_split(entity_slots, this_split_slots) ==
    IF DOMAIN entity_slots = {}
    THEN this_split_slots
    ELSE [service \in DOMAIN entity_slots \cup DOMAIN this_split_slots |->
            IF service \in DOMAIN this_split_slots
            THEN merge_service(entity_slots, this_split_slots, service)
            ELSE entity_slots[service]]

RECURSIVE merge_splits(_, _)
merge_splits(k, entity_slots) ==
    IF k > Len(_SPLIT_NAMES) THEN entity_slots
    ELSE merge_splits(k + 1, merge_split(entity_slots, _get_entity_slots(_SPLIT_NAMES[k])))

\* get_entity_slots_map(): the merged map, each set cast to a sorted list.
get_entity_slots_map ==
    LET entity_slots == merge_splits(1, <<>>)
    IN  [service \in DOMAIN entity_slots |->
            [intent \in DOMAIN entity_slots[service] |->
                sorted_alphabetical(list(entity_slots[service][intent]))]]

(***************************************************************************)
(* Binary slots (_generate_metadata.py).                                   *)
(***************************************************************************)
\* A plausible slip: the length test of line 176 dropped.
_find_service_binary_slots_nolen(service) ==
    LET qualifies(slot) ==
            /\ slot.is_categorical
            /\ Len(slot.possible_values) >= 1
            /\ LET values == slot.possible_values
                   condition_1 == InList(STR_True, values)
                   condition_2 == isdigit(values[1]) /\ int(values[1]) <= 1
               IN  condition_1 \/ condition_2
    IN  (service.service_name :>
            { service.slots[i].name :
                i \in { j \in 1..Len(service.slots) : qualifies(service.slots[j]) } })

\* _find_service_binary_slots: the dict {service_name: set of binary slot names},
\* with an explicit empty set for a service that has none.
_find_service_binary_slots(service) ==
    LET qualifies(slot) ==
            /\ slot.is_categorical
            /\ Len(slot.possible_values) = 2
            /\ LET values == slot.possible_values
                   condition_1 == InList(STR_True, values)
                   condition_2 == isdigit(values[1]) /\ int(values[1]) <= 1
               IN  condition_1 \/ condition_2
    IN  (service.service_name :>
            { service.slots[i].name :
                i \in { j \in 1..Len(service.slots) : qualifies(service.slots[j]) } })

(***************************************************************************)
(* The other extractors of the report (_generate_metadata.py).             *)
(***************************************************************************)
\* The services met by `for split in _SPLIT_NAMES: for service in
\* schema_iterator(split)`, in that order.
ServiceOccurrences ==
    Flatten([k \in 1..Len(_SPLIT_NAMES) |-> schema_iterator(_SPLIT_NAMES[k])])

ServiceNames(services) == { services[k].service_name : k \in 1..Len(services) }

\* The last service of the list that bears the name: dict.update keeps the
\* latest value of a key.
LastOccurrence(services, name) ==
    services[CHOOSE k \in 1..Len(services) :
                /\ services[k].service_name = name
                /\ \A j \in (k + 1)..Len(services) : services[j].service_name # name]

\* get_intents_by_split()
get_intents_by_split ==
    [split \in Range(_SPLIT_NAMES) |->
        sorted_alphabetical(list(get_schema_intents(split).transactional
                                    \cup get_schema_intents(split).search))]

\* _get_requestables(dialogue)
_get_requestables(dialogue) ==
    LET turns == dialogue_iterator(dialogue, TRUE, FALSE)
    IN  UNION { UNION { Range(turns[k].frames[j].state.requested_slots) :
                            j \in 1..Len(turns[k].frames) } : k \in 1..Len(turns) }

\* get_requestable_slots()
get_requestable_slots ==
    sorted_alphabetical(list(
        UNION { _get_requestables(corpus_iterator[k][2]) : k \in 1..Len(corpus_iterator) }))

\* Lines 197-209 on the traversed services.  set.union(*[]) of line 206 is a
\* TypeError when no schema declares a service; the per-service lists are sorted
\* without a key, the corpus-wide one by alphabetical_sort_key.
binary_slots_of(services) ==
    IF Len(services) = 0
    THEN [outcome |-> "TypeError"]
    ELSE [outcome |-> "returned",
          binary_slots |-> sorted_alphabetical(list(
                UNION { _find_service_binary_slots(LastOccurrence(services, name))[name] :
                            name \in ServiceNames(services) })),
          by_service |-> [name \in ServiceNames(services) |->
                Ascending(_find_service_binary_slots(LastOccurrence(services, name))[name])]]

\* get_binary_slots()
get_binary_slots == binary_slots_of(ServiceOccurrences)

\* A plausible slip: the binary slots not set aside.
_get_service_categorical_slots_all(service, binary_slots) ==
    LET kept == { k \in 1..Len(service.slots) : service.slots[k].is_categorical }
    IN  [slot_name \in { service.slots[k].name : k \in kept } |->
            Flatten([k \in 1..Len(service.slots) |->
                        IF k \in kept /\ service.slots[k].name = slot_name
                        THEN service.slots[k].possible_values ELSE <<>>])]

\* _get_service_categorical_slots(service, binary_slots): the values of every
\* categorical slot whose name is not in binary_slots.
_get_service_categorical_slots(service, binary_slots) ==
    LET kept == { k \in 1..Len(service.slots) :
                    /\ service.slots[k].is_categorical
                    /\ ~InList(service.slots[k].name, binary_slots) }
    IN  [slot_name \in { service.slots[k].name : k \in kept } |->
            Flatten([k \in 1..Len(service.slots) |->
                        IF k \in kept /\ service.slots[k].name = slot_name
                        THEN service.slots[k].possible_values ELSE <<>>])]

\* Lines 262-273 for one service, given its categorical slots: either an assert
\* of lines 270-271 fails, or the running results are extended.
categorical_step(results, service_name, service_cat_slots) ==
    IF service_name \in DOMAIN results.by_service
    THEN IF \A slot_name \in DOMAIN results.by_service[service_name] :
                /\ slot_name \in DOMAIN service_cat_slots
                /\ results.by_service[service_name][slot_name] = service_cat_slots[slot_name]
         THEN [results EXCEPT !.all = @ \cup DOMAIN service_cat_slots]
         ELSE [results EXCEPT !.outcome = "AssertionError"]
    ELSE [results EXCEPT !.all = @ \cup DOMAIN service_cat_slots,
                         !.by_service = (service_name :> service_cat_slots) @@ @]

\* The loop of lines 260-273 over the traversed services.
RECURSIVE categorical_fold(_, _, _)
categorical_fold(services, binary_slots_by_service, results) ==
    IF Len(services) = 0 \/ results.outcome # "returned" THEN results
    ELSE categorical_fold(Tail(services), binary_slots_by_service,
            categorical_step(results, Head(services).service_name,
                _get_service_categorical_slots(Head(services),
                    GetList(binary_slots_by_service, Head(services).service_name))))

\* Line 275: the set of names becomes a list, in the set's iteration order.
categorical_result(results) ==
    IF results.outcome # "returned" THEN [outcome |-> results.outcome]
    ELSE [outcome |-> "returned",
          categorical_slots |-> list(results.all),
          by_service |-> results.by_service]

\* get_categorical_slots(binary_slots_by_service)
get_categorical_slots(binary_slots_by_service) ==
    categorical_result(
        categorical_fold(ServiceOccurrences, binary_slots_by_service,
            [outcome |-> "returned", all |-> {}, by_service |-> <<>>]))

\* _map_intents_to_services(): a split is a key once one of its services
\* declares an intent; the services are appended in schema order.
intent_services(services, intent_name) ==
    Flatten([k \in 1..Len(services) |->
        [j \in 1..Cardinality({ i \in 1..Len(services[k].intents) :
                                    services[k].intents[i].name = intent_name }) |->
            services[k].service_name]])

_map_intents_to_services ==
    [split \in { s \in Range(_SPLIT_NAMES) : SchemaIntentDicts(s) # {} } |->
        [intent_name \in { intent.name : intent \in SchemaIntentDicts(split) } |->
            intent_services(schema_iterator(split), intent_name)]]

\* get_services(split)
get_services(split) == ServiceNames(schema_iterator(split))

\* get_file_services(filename)
get_file_services(filename) ==
    UNION { Range(dial_bunch(filename)[k].services) : k \in 1..Len(dial_bunch(filename)) }

\* f'{n}': the decimal digits of a natural number.
RECURSIVE Decimal(_)
Decimal(n) == IF n < 10 THEN <<48 + n>> ELSE Decimal(n \div 10) \o <<48 + (n % 10)>>

\* reconstruct_filename's str_file_prefix: the file index in at least three digits, the
\* form the index takes in the name dialogues_<prefix>.json.
str_file_prefix(file_prefix) ==
    IF file_prefix < 10 THEN <<48, 48>> \o Decimal(file_prefix)
    ELSE IF file_prefix < 100 THEN <<48>> \o Decimal(file_prefix)
    ELSE Decimal(file_prefix)

\* The files of a service, as cast_vals_to_sorted_list leaves them: the nested
\* call of line 39 passes no sort_by, so the paths are sorted as plain strings;
\* the paths of one split differ in the digits of the file name only.
sorted_paths(fps) == sorted(fps, [k \in 1..Len(fps) |-> str_file_prefix(fps[k][2])])

\* get_service_to_file_map(): a split is a key once its schema has a service.
\* The set of a service's files is listed here in the order of get_filenames,
\* which is as arbitrary as the set's own; the sort that follows is stable.
get_service_to_file_map ==
    [split \in { s \in Range(_SPLIT_NAMES) : get_services(s) # {} } |->
        [service \in get_services(split) |->
            sorted_paths(SelectSeq(get_filenames(split),
                            LAMBDA fp : service \in get_file_services(fp)))]]

\* get_multiple_services_dialogues(): every dialogue met by corpus_iterator is
\* appended under its split, whatever its 'services' list.
get_multiple_services_dialogues ==
    [split \in { s \in Range(_SPLIT_NAMES) : Len(split_iterator(s)) > 0 } |->
        [k \in 1..Len(split_iterator(split)) |-> split_iterator(split)[k][2].dialogue_id]]

(***************************************************************************)
(* The assembler (__main__ of _generate_metadata.py) and the accessor      *)
(* (metadata.py).                                                          *)
(***************************************************************************)
\* Lines 572-580: {split: _dialogues_by_type[split][label] for split in
\* _dialogues_by_type}; the inner dicts are defaultdict(list).
dialogues_of_label(dialogues_by_type, label) ==
    [split \in DOMAIN dialogues_by_type |-> GetList(dialogues_by_type[split], label)]

\* Lines 587-607: the metadata dict.
metadata_dict(locals, version) ==
    [VERSION |-> version,
     SERVICES_TO_FILES |-> get_service_to_file_map,
     ALL_INTENTS |-> sorted_alphabetical(locals._intents_by_type.search
                                            \o locals._intents_by_type.transactional),
     SEARCH_INTENTS |-> locals._intents_by_type.search,
     TRANSACTIONAL_INTENTS |-> locals._intents_by_type.transactional,
     INTENTS_TO_SERVICES |-> _map_intents_to_services,
     INTENTS_BY_SPLIT |-> get_intents_by_split,
     REQUESTABLE_SLOTS |-> get_requestable_slots,
     BINARY_SLOTS |-> locals.binary_slots,
     BINARY_SLOTS_BY_SERVICE |-> locals.binary_slots_by_service,
     CATEGORICAL_SLOTS |-> locals.categorical_slots,
     CATEGORICAL_SLOTS_BY_SERVICE |-> locals.categorical_slots_by_service,
     ENTITY_SLOTS_BY_SERVICE |-> locals.entity_slots,
     SPLIT_NAMES |-> _SPLIT_NAMES,
     TRANSACTIONAL_DIALOGUES |-> dialogues_of_label(locals._dialogues_by_type, "transactional"),
     SEARCH_DIALOGUES |-> dialogues_of_label(locals._dialogues_by_type, "search"),
     MIXED_INTENT_DIALOGUES |-> dialogues_of_label(locals._dialogues_by_type, "mixed_intent"),
     MULTIPLE_SERVICES_DIALOGUES |-> get_multiple_services_dialogues]

\* The keys metadata.py reads from _metadata, in the order of its statements.
AccessorReads ==
    << "VERSION", "SERVICES_TO_FILES", "ALL_INTENTS", "SEARCH_INTENTS", "INTENTS_BY_SPLIT",
       "TRANSACTIONAL_INTENTS", "INTENTS_TO_SERVICES", "REQUESTABLE_SLOTS", "BINARY_SLOTS",
       "BINARY_SLOTS_BY_SERVICE", "CATEGORICAL_SLOTS", "CATEGORICAL_SLOTS_BY_SERVICE",
       "ENTITY_SLOTS", "TRANSACTIONAL_DIALOGUES", "SEARCH_DIALOGUES",
       "MIXED_INTENT_DIALOGUES", "MULTIPLE_SERVICES_DIALOGUES" >>

\* cast_vals_to_set on a dict of lists, and on a dict of such dicts.
cast_vals_to_set(d) == [key \in DOMAIN d |-> Range(d[key])]

cast_nested_vals_to_set(d) == [key \in DOMAIN d |-> cast_vals_to_set(d[key])]

\* The attributes assigned set(...) or set(); `kinds` below records the Python
\* type of each attribute's value: "str", "set" or "dict".
SetAttributes ==
    {"ALL_INTENTS", "SEARCH_INTENTS", "TRANSACTIONAL_INTENTS", "REQUESTABLE_SLOTS",
     "BINARY_SLOTS", "CATEGORICAL_SLOTS"}

\* The module attributes when _metadata is the defaultdict(lambda: '') of line
\* 20: '' is falsy, so every conditional takes its empty default, and the two
\* attributes assigned without a conditional are ''.
accessor_defaults ==
    [state |-> "loaded", warning |-> TRUE,
     kinds |-> [key \in Range(AccessorReads) |->
                    IF key \in {"VERSION", "SERVICES_TO_FILES"} THEN "str"
                    ELSE IF key \in SetAttributes THEN "set" ELSE "dict"],
     VERSION |-> "", SERVICES_TO_FILES |-> "",
     ALL_INTENTS |-> {}, SEARCH_INTENTS |-> {}, INTENTS_BY_SPLIT |-> <<>>,
     TRANSACTIONAL_INTENTS |-> {}, INTENTS_TO_SERVICES |-> <<>>,
     REQUESTABLE_SLOTS |-> {}, BINARY_SLOTS |-> {}, BINARY_SLOTS_BY_SERVICE |-> <<>>,
     CATEGORICAL_SLOTS |-> {}, CATEGORICAL_SLOTS_BY_SERVICE |-> <<>>,
     ENTITY_SLOTS |-> <<>>, TRANSACTIONAL_DIALOGUES |-> <<>>, SEARCH_DIALOGUES |-> <<>>,
     MIXED_INTENT_DIALOGUES |-> <<>>, MULTIPLE_SERVICES_DIALOGUES |-> <<>>]

\* The module attributes computed from a parsed report that has every key read.
accessor_values(_metadata) ==
    [state |-> "loaded", warning |-> FALSE,
     kinds |-> [key \in Range(AccessorReads) |->
                    IF key = "VERSION" THEN "str"
                    ELSE IF key \in SetAttributes THEN "set" ELSE "dict"],
     VERSION |-> _metadata.VERSION,
     SERVICES_TO_FILES |-> _metadata.SERVICES_TO_FILES,
     ALL_INTENTS |-> Range(_metadata.ALL_INTENTS),
     SEARCH_INTENTS |-> Range(_metadata.SEARCH_INTENTS),
     INTENTS_BY_SPLIT |-> cast_vals_to_set(_metadata.INTENTS_BY_SPLIT),
     TRANSACTIONAL_INTENTS |-> Range(_metadata.TRANSACTIONAL_INTENTS),
     INTENTS_TO_SERVICES |-> cast_nested_vals_to_set(_metadata.INTENTS_TO_SERVICES),
     REQUESTABLE_SLOTS |-> Range(_metadata.REQUESTABLE_SLOTS),
     BINARY_SLOTS |-> Range(_metadata.BINARY_SLOTS),
     BINARY_SLOTS_BY_SERVICE |-> cast_vals_to_set(_metadata.BINARY_SLOTS_BY_SERVICE),
     CATEGORICAL_SLOTS |-> Range(_metadata.CATEGORICAL_SLOTS),
     CATEGORICAL_SLOTS_BY_SERVICE |->
        cast_nested_vals_to_set(_metadata.CATEGORICAL_SLOTS_BY_SERVICE),
     ENTITY_SLOTS |-> cast_nested_vals_to_set(_metadata.ENTITY_SLOTS),
     TRANSACTIONAL_DIALOGUES |-> cast_vals_to_set(_metadata.TRANSACTIONAL_DIALOGUES),
     SEARCH_DIALOGUES |-> cast_vals_to_set(_metadata.SEARCH_DIALOGUES),
     MIXED_INTENT_DIALOGUES |-> cast_vals_to_set(_metadata.MIXED_INTENT_DIALOGUES),
     MULTIPLE_SERVICES_DIALOGUES |-> cast_vals_to_set(_metadata.MULTIPLE_SERVICES_DIALOGUES)]

\* The first key of AccessorReads the report lacks, or 0: _metadata[key] on the
\* dict json.load returns raises KeyError for it.
first_missing_key(_metadata) ==
    IF \E k \in 1..Len(AccessorReads) : AccessorReads[k] \notin DOMAIN _metadata
    THEN CHOOSE k \in 1..Len(AccessorReads) :
            /\ AccessorReads[k] \notin DOMAIN _metadata
            /\ \A j \in 1..(k - 1) : AccessorReads[j] \in DOMAIN _metadata
    ELSE 0

\* import metadata: a missing or unparsable file gives the defaults with a
\* warning (lines 15-20); a parsed report is read key by key.
accessor_import(file) ==
    IF file.state # "written"
    THEN accessor_defaults
    ELSE IF first_missing_key(file.content) # 0
         THEN [state |-> "KeyError", key |-> AccessorReads[first_missing_key(file.content)]]
         ELSE accessor_values(file.content)

(***************************************************************************)
(* The state before any operation: nothing called, nothing iterated, the   *)
(* assembler not started, no report on disk, the accessor not imported.    *)
(***************************************************************************)
SplitSet == {"train", "dev", "test"}

NoCall == [op |-> "none"]
IdleIterator == [state |-> "idle"]
NoLocals == [step |-> 0]
NoAccessor == [state |-> "unloaded"]
AbsentFile == [state |-> "absent"]

\* The library functions are pure and the corpus is read-only: each call is
\* explored from the state in which no call has been made yet.
NoCallYet == ret.op = "none"

Idle ==
    /\ ret = NoCall
    /\ it = IdleIterator
    /\ pc = "start"
    /\ asm = NoLocals
    /\ metadataFile = AbsentFile
    /\ acc = NoAccessor

(***************************************************************************)
(* Slot schemas: one service whose first slot ranges over every            *)
(* categorical flag and every possible-value list up to MaxVals entries.   *)
(***************************************************************************)
SLOT_a == <<97>>
SLOT_b == <<98>>
SLOT_c == <<99>>

ValuePool == {STR_True, STR_False, STR_0, STR_1, STR_2, STR_01, STR_1a, STR_Empty}

ValueLists == UNION { [1..n -> ValuePool] : n \in 0..MaxVals }

SlotUniverse ==
    { [name |-> SLOT_a, is_categorical |-> c, possible_values |-> v] :
        c \in BOOLEAN, v \in ValueLists }

FixedSlot == [name |-> SLOT_b, is_categorical |-> TRUE,
              possible_values |-> <<STR_True, STR_False>>]

SlotSchemas ==
    { [s \in SplitSet |->
        IF s = "train"
        THEN << [service_name |-> "Svc_1", intents |-> <<>>, slots |-> <<slot, FixedSlot>>] >>
        ELSE IF s = "dev"
        THEN << [service_name |-> "Svc_2", intents |-> <<>>, slots |-> <<slot>>] >>
        ELSE <<>>] : slot \in SlotUniverse }

InitSlots ==
    /\ schema \in SlotSchemas
    /\ files = [s \in SplitSet |-> <<>>]
    /\ setOrder = "asc"
    /\ Idle

\* A caller applies _find_service_binary_slots to a service of a split's schema.
Call_find_service_binary_slots(split, i) ==
    /\ NoCallYet
    /\ i \in 1..Len(schema[split])
    /\ ret' = [op |-> "_find_service_binary_slots",
               service |-> schema[split][i],
               outcome |-> "returned",
               value |-> _find_service_binary_slots(schema[split][i])]
    /\ UNCHANGED <<schema, files, setOrder, it, pc, asm, metadataFile, acc>>

NextSlots ==
    \E split \in SplitSet, i \in 1..2 : Call_find_service_binary_slots(split, i)

SpecSlots == InitSlots /\ [][NextSlots]_vars

(***************************************************************************)
(* Claims about binary-slot detection.                                     *)
(***************************************************************************)
BinaryCallDone == ret.op = "_find_service_binary_slots"

BinaryResult == ret.value[ret.service.service_name]

\* The slots of the service the last call was applied to.
CalledSlots == Range(ret.service.slots)

\* C8 (as stated): _find_service_binary_slots classifies a categorical slot with
\* possible values ["True","False"] as binary, one with ["0","1"] as binary and
\* one with ["1","2"] as not binary.
CexC8_ExamplesClassified ==
    BinaryCallDone =>
        \A slot \in CalledSlots :
            slot.is_categorical =>
                /\ slot.possible_values = <<STR_True, STR_False>> => slot.name \in BinaryResult
                /\ slot.possible_values = <<STR_0, STR_1>> => slot.name \in BinaryResult
                /\ slot.possible_values = <<STR_1, STR_2>> => slot.name \notin BinaryResult

\* "the first entry consists only of digits and its integer value is at most 1":
\* a non-empty run of digits, zeros except possibly a final one.
FirstEntryIsDigitsAtMostOne(values) ==
    LET first == values[1]
    IN  /\ Len(first) >= 1
        /\ \A k \in 1..Len(first) : first[k] \in 48..57
        /\ \A k \in 1..(Len(first) - 1) : first[k] = 48
        /\ first[Len(first)] \in {48, 49}

NumIntentNames == 2
MaxIntents == 2     \* most intents declared by one service

IntentName(k) == <<72 + k>>

IntentNames == { IntentName(k) : k \in 1..NumIntentNames }

IntentDicts == [name : IntentNames, is_transactional : BOOLEAN]

\* The intent lists of a service, up to n intents.
IntentLists(n) == UNION { [1..k -> IntentDicts] : k \in 0..n }

Service(name, intents, slots) ==
    [service_name |-> name, intents |-> intents, slots |-> slots]

IntentSchemas ==
    { [s \in SplitSet |->
        IF s = "train"
        THEN << Service("Svc_1", i1, <<>>), Service("Svc_2", i2, <<>>) >>
        ELSE IF s = "dev"
        THEN << Service("Svc_1", i3, <<>>) >>
        ELSE << Service("Svc_3", i4, <<>>) >>] :
        i1 \in IntentLists(MaxIntents), i2 \in IntentLists(1),
        i3 \in IntentLists(1),
        i4 \in { l \in IntentLists(1) : \A k \in 1..Len(l) : l[k].name = IntentName(1) } }

InitIntents ==
    /\ schema \in IntentSchemas
    /\ files = [s \in SplitSet |-> <<>>]
    /\ setOrder \in {"asc", "desc"}
    /\ Idle

Call_get_schema_intents(split) ==
    /\ NoCallYet
    /\ ret' = [op |-> "get_schema_intents", split |-> split,
               outcome |-> "returned", value |-> get_schema_intents(split)]
    /\ UNCHANGED <<schema, files, setOrder, it, pc, asm, metadataFile, acc>>

Call_get_intents_by_type ==
    /\ NoCallYet
    /\ ret' = [op |-> "get_intents_by_type",
               outcome |-> "returned", value |-> get_intents_by_type]
    /\ UNCHANGED <<schema, files, setOrder, it, pc, asm, metadataFile, acc>>

NextIntents ==
    \/ \E split \in SplitSet : Call_get_schema_intents(split)
    \/ Call_get_intents_by_type

SpecIntents == InitIntents /\ [][NextIntents]_vars

(***************************************************************************)
(* Claims about the intent taxonomy.                                       *)
(***************************************************************************)
\* The names some service of the split declares with the given flag.
DeclaredWithFlag(split, flag) ==
    { schema[split][i].intents[k].name :
        <<i, k>> \in { <<i, k>> \in (1..Len(schema[split])) \X (1..4) :
                        /\ k <= Len(schema[split][i].intents)
                        /\ schema[split][i].intents[k].is_transactional = flag } }

DeclaredAnywhere(flag) == UNION { DeclaredWithFlag(split, flag) : split \in SplitSet }

CrossSplitConflicts ==
    { n \in DeclaredAnywhere(TRUE) \cap DeclaredAnywhere(FALSE) :
        \E s1, s2 \in SplitSet :
            /\ s1 # s2
            /\ n \in DeclaredWithFlag(s1, TRUE)
            /\ n \in DeclaredWithFlag(s2, FALSE) }

MaxUserTurns == 2   \* most user turns of a dialogue

INTENT_Buy  == <<66, 117, 121>>
INTENT_Find == <<70, 105, 110, 100>>
INTENT_Get  == <<71, 101, 116>>

Intent(name, flag) == [name |-> name, is_transactional |-> flag]

DialogueSchema ==
    [s \in SplitSet |->
        IF s = "train"
        THEN << Service("Svc_1", << Intent(INTENT_Buy, TRUE), Intent(INTENT_Find, FALSE),
                                    Intent(INTENT_Get, TRUE) >>, <<>>) >>
        ELSE IF s = "dev"
        THEN << Service("Svc_1", << Intent(INTENT_Buy, TRUE), Intent(INTENT_Find, FALSE),
                                    Intent(INTENT_Get, FALSE) >>, <<>>) >>
        ELSE << Service("Svc_1", << Intent(INTENT_Buy, TRUE),
                                    Intent(INTENT_Find, FALSE) >>, <<>>) >>]

UserFrame(service, intent, requested) ==
    [service |-> service, slots |-> <<>>,
     state |-> [active_intent |-> intent, requested_slots |-> requested]]

UserTurn(intent) == [speaker |-> "USER", frames |-> << UserFrame("Svc_1", intent, <<>>) >>]

\* A system frame without a service call.
PlainSystemTurn ==
    [speaker |-> "SYSTEM", frames |-> << [service |-> "Svc_1", slots |-> <<>>] >>]

\* A dialogue whose user turns carry the given active intents, each followed by
\* a system turn.
Dialogue(f, i, intents, systemTurns) ==
    [dialogue_id |-> <<f, i>>,
     services |-> <<"Svc_1">>,
     turns |-> [k \in 1..(2 * Len(intents)) |->
                    IF k % 2 = 1 THEN UserTurn(intents[(k + 1) \div 2])
                    ELSE systemTurns[k \div 2]]]

ActiveIntents == {STR_NONE, INTENT_Buy, INTENT_Find, INTENT_Get}

IntentSeqs(n) == UNION { [1..k -> ActiveIntents] : k \in 1..n }

PlainTurns(n) == [k \in 1..n |-> PlainSystemTurn]

ClassCorpora ==
    { [s \in SplitSet |->
        IF s = "train"
        THEN (1 :> << Dialogue(1, 0, a, PlainTurns(Len(a))) >>)
                @@ (2 :> << Dialogue(2, 0, b, PlainTurns(Len(b))) >>)
        ELSE IF s = "dev"
        THEN (1 :> << Dialogue(1, 0, c, PlainTurns(Len(c))),
                      Dialogue(1, 1, <<INTENT_Find>>, PlainTurns(1)) >>)
        ELSE (1 :> << Dialogue(1, 0, <<INTENT_Buy>>, PlainTurns(1)) >>)] :
        a \in IntentSeqs(MaxUserTurns), b \in IntentSeqs(1), c \in IntentSeqs(1) }

InitClass ==
    /\ schema = DialogueSchema
    /\ files \in ClassCorpora
    /\ setOrder \in {"asc", "desc"}
    /\ Idle

\* The assembler's call: get_dialogues_by_type(get_intents_by_type()).
Call_get_dialogues_by_type ==
    /\ NoCallYet
    /\ ret' = [op |-> "get_dialogues_by_type"]
                @@ get_dialogues_by_type(get_intents_by_type)
    /\ UNCHANGED <<schema, files, setOrder, it, pc, asm, metadataFile, acc>>

Call_filter_by_intent_type(split, transactional, search) ==
    /\ NoCallYet
    /\ ret' = [op |-> "filter_by_intent_type", split |-> split,
               transactional |-> transactional, search |-> search]
                @@ filter_by_intent_type(split, transactional, search)
    /\ UNCHANGED <<schema, files, setOrder, it, pc, asm, metadataFile, acc>>

NextClass ==
    \/ Call_get_dialogues_by_type
    \/ \E split \in SplitSet, transactional \in BOOLEAN, search \in BOOLEAN :
            Call_filter_by_intent_type(split, transactional, search)

SpecClass == InitClass /\ [][NextClass]_vars

(***************************************************************************)
(* Claims about the classifier and the filter.                             *)
(***************************************************************************)
\* The dialogues of a split, whatever the file.
DialoguesOf(split) == UNION { Range(files[split][f]) : f \in DOMAIN files[split] }

\* The active intents other than NONE carried by the user frames of a dialogue.
SeenIntents(dial) ==
    { i \in ActiveIntents \ {STR_NONE} :
        \E k \in 1..Len(dial.turns) :
            /\ dial.turns[k].speaker = "USER"
            /\ \E j \in 1..Len(dial.turns[k].frames) :
                    dial.turns[k].frames[j].state.active_intent = i }

\* C1: for every split, filter_by_intent_type(split, transactional=False,
\* search=False) raises ValueError, before any schema or dialogue file is read and
\* without returning a partial result.
ThmC1_NoFlagRaisesFirst ==
    (ret.op = "filter_by_intent_type" /\ ~ret.transactional /\ ~ret.search) =>
        /\ ret.outcome = "ValueError"
        /\ ret.reads.schemas = {} /\ ret.reads.dialogues = {}
        /\ "value" \notin DOMAIN ret

\* C1 witness: the call made with both flags false on a split that has dialogues.
WitC1_NoFlagCall ==
    /\ ret.op = "filter_by_intent_type"
    /\ ~ret.transactional /\ ~ret.search
    /\ ret.outcome = "ValueError"
    /\ DialoguesOf(ret.split) # {}

\* The label get_dialogues_by_type gives a dialogue of the split.
LabelOf(split, dial) ==
    CHOOSE l \in {"transactional", "search", "mixed_intent"} :
        InList(dial.dialogue_id,
               GetList(get_dialogues_by_type(get_intents_by_type).value[split], l))

\* C2 (as stated): every dialogue get_dialogues_by_type labels 'transactional' is
\* in the ID sets of filter_by_intent_type(split, True, False), every one labelled
\* 'search' in those of (False, True), every one labelled 'mixed_intent' in those
\* of (True, True).
CexC2_LabelledDialoguesFiltered ==
    (ret.op = "filter_by_intent_type" /\ ret.outcome = "returned") =>
        LET ids == UNION { ret.value[fp] : fp \in DOMAIN ret.value }
            matching == IF ret.transactional /\ ~ret.search THEN "transactional"
                        ELSE IF ret.search /\ ~ret.transactional THEN "search"
                        ELSE "mixed_intent"
        IN  \A dial \in DialoguesOf(ret.split) :
                LabelOf(ret.split, dial) = matching => dial.dialogue_id \in ids

\* Whether the returned mapping lists the ID in the bucket of the split.
Placed(split, bucket, id) ==
    /\ split \in DOMAIN ret.value
    /\ InList(id, GetList(ret.value[split], bucket))

\* How many times the ID is listed in the three buckets of the split.
Placements(split, id) ==
    Cardinality({ <<b, k>> \in {"transactional", "search", "mixed_intent"} \X (1..4) :
                    /\ split \in DOMAIN ret.value
                    /\ k <= Len(GetList(ret.value[split], b))
                    /\ GetList(ret.value[split], b)[k] = id })

MaxMentioned == 2   \* how many slot names the system frames may mention

SlotNames == <<SLOT_a, SLOT_b, SLOT_c, <<100>>>>

Mentionable == { SlotNames[k] : k \in 1..MaxMentioned }

\* A system turn whose frame records a call of the intent, `results` result
\* entities and a mention of each of the slots.
CallTurn(service, method, results, slots) ==
    [speaker |-> "SYSTEM",
     frames |-> << [service |-> service,
                    slots |-> [k \in 1..Len(slots) |-> [slot |-> slots[k]]],
                    service_call |-> [method |-> method],
                    service_results |-> [k \in 1..results |-> "entity"]] >>]

SearchCallTurns == { CallTurn("Svc_1", INTENT_Find, 1, Ascending(m)) : m \in SUBSET Mentionable }

SystemTurns ==
    SearchCallTurns
    \cup { PlainSystemTurn,
           CallTurn("Svc_1", INTENT_Find, 0, <<SLOT_a>>),
           CallTurn("Svc_1", INTENT_Buy, 1, <<SLOT_a>>) }

\* A system turn that carries two frames, the second a successful search call
\* that mentions no slot.
TwoFrames(first) ==
    [speaker |-> "SYSTEM",
     frames |-> <<first, CallTurn("Svc_1", INTENT_Find, 1, <<>>).frames[1]>>]

TwoFrameTurns ==
    { TwoFrames(PlainSystemTurn.frames[1]),
      TwoFrames(CallTurn("Svc_1", INTENT_Find, 1, <<SLOT_a>>).frames[1]) }

\* The system turns of a dialogue of n user turns: plain ones, then the closing one.
ClosedBy(n, last) == [k \in 1..n |-> IF k = n THEN last ELSE PlainSystemTurn]

EntityIntentSeqs == { <<INTENT_Find>>, <<INTENT_Buy, INTENT_Find>>, <<INTENT_Buy>>, <<STR_NONE>> }

EntityCorpora ==
    { [s \in SplitSet |->
        IF s = "train"
        THEN (1 :> << Dialogue(1, 0, u, ClosedBy(Len(u), t1)),
                      Dialogue(1, 1, <<INTENT_Find>>, ClosedBy(1, t2)) >>)
        ELSE IF s = "dev"
        THEN (1 :> << Dialogue(1, 0, <<INTENT_Find>>, ClosedBy(1, t3)) >>)
        ELSE (1 :> << Dialogue(1, 0, <<INTENT_Buy>>, PlainTurns(1)) >>)] :
        u \in EntityIntentSeqs, t1 \in SystemTurns, t2 \in SearchCallTurns,
        t3 \in SystemTurns \cup TwoFrameTurns }

InitEntity ==
    /\ schema = DialogueSchema
    /\ files \in EntityCorpora
    /\ setOrder \in {"asc", "desc"}
    /\ Idle

Call_get_entity_slots(split) ==
    /\ NoCallYet
    /\ ret' = [op |-> "_get_entity_slots", split |-> split,
               outcome |-> "returned", value |-> _get_entity_slots(split)]
    /\ UNCHANGED <<schema, files, setOrder, it, pc, asm, metadataFile, acc>>

Call_get_entity_slots_map ==
    /\ NoCallYet
    /\ ret' = [op |-> "get_entity_slots_map",
               outcome |-> "returned", value |-> get_entity_slots_map]
    /\ UNCHANGED <<schema, files, setOrder, it, pc, asm, metadataFile, acc>>

NextEntity ==
    \/ \E split \in SplitSet : Call_get_entity_slots(split)
    \/ Call_get_entity_slots_map

SpecEntity == InitEntity /\ [][NextEntity]_vars

(***************************************************************************)
(* Claims about entity slots.                                              *)
(***************************************************************************)
\* The frames of the split the claim speaks of: the frame of a system turn of a
\* dialogue labelled 'search' or 'mixed_intent' that records a service call to a
\* search intent together with service results.
SuccessfulSearchFrames(split) ==
    { dial.turns[k].frames[1] :
        <<dial, k>> \in { <<d, j>> \in DialoguesOf(split) \X (1..(2 * MaxUserTurns)) :
            /\ LabelOf(split, d) \in {"search", "mixed_intent"}
            /\ j <= Len(d.turns)
            /\ d.turns[j].speaker = "SYSTEM"
            /\ "service_call" \in DOMAIN d.turns[j].frames[1]
            /\ d.turns[j].frames[1].service_call.method \in DeclaredAnywhere(FALSE)
            /\ Len(d.turns[j].frames[1].service_results) > 0 } }

\* C3 (as stated): for every dialogue classified 'search' or 'mixed_intent' and
\* every system turn of it whose frame records a service call to a search intent
\* together with service results, the entity-slot set get_entity_slots_map reports
\* for the frame's (service, intent) pair is a subset of the slots the frame
\* mentions.
CexC3_EntitySlotsMentionedInEveryFrame ==
    ret.op = "get_entity_slots_map" =>
        \A split \in SplitSet : \A frame \in SuccessfulSearchFrames(split) :
            HasEntry(ret.value, frame.service, frame.service_call.method) =>
                Range(ret.value[frame.service][frame.service_call.method])
                    \subseteq { frame.slots[k].slot : k \in 1..Len(frame.slots) }

(***************************************************************************)
(* Dialogue files for the traversal layer: train/dialogues_001.json holds  *)
(* dialogues in increasing order of their within-file index (the order the *)
(* corpus is published in, and the one max_index of line 60 relies on),    *)
(* some of the indexes 0..MaxIndex possibly missing.                       *)
(***************************************************************************)
MaxIndex == 2   \* largest within-file index of a dialogue

RECURSIVE Increasing(_)
Increasing(I) ==
    IF I = {} THEN <<>>
    ELSE LET least == CHOOSE i \in I : \A j \in I : i <= j
         IN  <<least>> \o Increasing(I \ {least})

IndexedBunch(idx) ==
    [k \in 1..Len(idx) |-> Dialogue(1, idx[k], <<INTENT_Find>>, PlainTurns(1))]

IterCorpora ==
    { [s \in SplitSet |->
        IF s = "train"
        THEN (1 :> IndexedBunch(Increasing(I)))
        ELSE (1 :> << Dialogue(1, 0, <<INTENT_Buy>>, PlainTurns(1)) >>)] :
        I \in (SUBSET (0..MaxIndex)) \ {{}} }

\* The IDs a caller may ask train/dialogues_001.json for.
IterIds == { <<1, i>> : i \in 0..MaxIndex }

InitIter ==
    /\ schema = DialogueSchema
    /\ files \in IterCorpora
    /\ setOrder \in {"asc", "desc"}
    /\ Idle

\* g = file_iterator(filename, return_only)
Call_file_iterator(filename, return_only) ==
    /\ it.state = "idle"
    /\ it' = new_file_iterator(filename, return_only)
    /\ UNCHANGED <<schema, files, setOrder, ret, pc, asm, metadataFile, acc>>

\* next(g)
Next_file_iterator ==
    /\ it.state = "suspended"
    /\ it' = resume_file_iterator(it)
    /\ UNCHANGED <<schema, files, setOrder, ret, pc, asm, metadataFile, acc>>

\* list(split_iterator("train", return_only)) for a set of IDs of dialogues of
\* the split
Call_split_iterator(return_only) ==
    /\ NoCallYet
    /\ it.state = "idle"
    /\ return_only \subseteq { split_iterator("train")[k][2].dialogue_id :
                                k \in 1..Len(split_iterator("train")) }
    /\ ret' = [op |-> "split_iterator", split |-> "train", return_only |-> return_only,
               outcome |-> "returned", value |-> split_iterator_only("train", return_only)]
    /\ UNCHANGED <<schema, files, setOrder, it, pc, asm, metadataFile, acc>>

NextIter ==
    \/ \E return_only \in SUBSET IterIds : Call_file_iterator(<<"train", 1>>, return_only)
    \/ Next_file_iterator
    \/ \E return_only \in SUBSET IterIds : Call_split_iterator(return_only)

SpecIter == InitIter /\ [][NextIter]_vars

(***************************************************************************)
(* Claims about the traversal layer.                                       *)
(***************************************************************************)
FileIds(filename) == { dial_bunch(filename)[k].dialogue_id : k \in 1..Len(dial_bunch(filename)) }

YieldedIds == { it.yielded[k][2].dialogue_id : k \in 1..Len(it.yielded) }

\* The generator was given a non-empty set of IDs of the file's dialogues and the
\* file shows no missing dialogue.
IndexedCase ==
    /\ it.state # "idle"
    /\ it.return_only # {}
    /\ it.return_only \subseteq FileIds(it.filename)
    /\ ~missing_dialogues(dial_bunch(it.filename))

SlotA(categorical, values) ==
    [name |-> SLOT_a, is_categorical |-> categorical, possible_values |-> values]

TrainSlots == { SlotA(FALSE, <<>>), SlotA(TRUE, <<STR_0, STR_1, STR_2>>) }

LaterSlots == TrainSlots \cup { SlotA(TRUE, <<STR_0, STR_1>>) }

MetaSchemas ==
    { [s \in SplitSet |->
        IF s = "train"
        THEN << Service("Svc_1", << Intent(INTENT_Buy, TRUE), Intent(INTENT_Find, FALSE),
                                    Intent(INTENT_Get, TRUE) >>, <<a1, FixedSlot>>),
                Service("Svc_2", << Intent(INTENT_Find, FALSE) >>, <<>>) >>
        ELSE IF s = "dev"
        THEN << Service("Svc_1", << Intent(INTENT_Buy, TRUE), Intent(INTENT_Find, FALSE),
                                    Intent(INTENT_Get, FALSE) >>, <<a2, FixedSlot>>) >>
        ELSE << Service("Svc_1", << Intent(INTENT_Buy, TRUE),
                                    Intent(INTENT_Find, FALSE) >>, <<a2, FixedSlot>>) >>] :
        a1 \in TrainSlots, a2 \in LaterSlots }

\* The dialogue with the slots requested in its first user frame and the
\* services it declares replaced.
Requesting(dial, requested, services) ==
    [dial EXCEPT !.services = services,
                 !.turns[1].frames[1].state.requested_slots = requested]

MetaCorpora ==
    { [s \in SplitSet |->
        IF s = "train"
        THEN (1 :> << Requesting(Dialogue(1, 0, u, ClosedBy(Len(u), t)), r, <<"Svc_1">>),
                      Dialogue(1, 1, <<INTENT_Find>>,
                               ClosedBy(1, CallTurn("Svc_1", INTENT_Find, 1, <<SLOT_a, SLOT_b>>))) >>)
                @@ (2 :> << Requesting(Dialogue(2, 0, <<INTENT_Get>>, PlainTurns(1)), <<>>, v) >>)
        ELSE IF s = "dev"
        THEN (1 :> << Dialogue(1, 0, <<INTENT_Find>>,
                               ClosedBy(1, CallTurn("Svc_1", INTENT_Find, 1, <<SLOT_a>>))) >>)
        ELSE (1 :> << Dialogue(1, 0, <<INTENT_Buy>>, PlainTurns(1)) >>)] :
        u \in { <<INTENT_Find>>, <<INTENT_Buy, INTENT_Find>> },
        t \in { PlainSystemTurn, CallTurn("Svc_1", INTENT_Find, 1, <<SLOT_a>>) },
        r \in { <<>>, <<SLOT_b>> },
        v \in { <<"Svc_1">>, <<"Svc_1", "Svc_2">> } }

CorruptFile == [state |-> "corrupt"]

InitMeta ==
    /\ schema \in MetaSchemas
    /\ files \in MetaCorpora
    /\ setOrder \in {"asc", "desc"}
    /\ ret = NoCall
    /\ it = IdleIterator
    /\ pc = "start"
    /\ asm = NoLocals
    /\ metadataFile \in {AbsentFile, CorruptFile}
    /\ acc = NoAccessor

\* The run ends with an uncaught exception.
Fails(error) ==
    /\ pc' = "failed"
    /\ asm' = ("error" :> error) @@ asm

\* Line 569
Main_get_intents_by_type ==
    /\ pc = "start"
    /\ asm' = ("_intents_by_type" :> get_intents_by_type) @@ asm
    /\ pc' = "l571"
    /\ UNCHANGED <<schema, files, setOrder, ret, it, metadataFile, acc>>

\* Lines 571-580
Main_get_dialogues_by_type ==
    /\ pc = "l571"
    /\ LET result == get_dialogues_by_type(asm._intents_by_type)
       IN  IF result.outcome = "returned"
           THEN /\ asm' = ("_dialogues_by_type" :> result.value) @@ asm
                /\ pc' = "l582"
           ELSE Fails(result.outcome)
    /\ UNCHANGED <<schema, files, setOrder, ret, it, metadataFile, acc>>

\* Line 582
Main_get_binary_slots ==
    /\ pc = "l582"
    /\ LET result == get_binary_slots
       IN  IF result.outcome = "returned"
           THEN /\ asm' = ("binary_slots" :> result.binary_slots)
                            @@ ("binary_slots_by_service" :> result.by_service) @@ asm
                /\ pc' = "l584"
           ELSE Fails(result.outcome)
    /\ UNCHANGED <<schema, files, setOrder, ret, it, metadataFile, acc>>

\* Line 584
Main_get_categorical_slots ==
    /\ pc = "l584"
    /\ LET result == get_categorical_slots(asm.binary_slots_by_service)
       IN  IF result.outcome = "returned"
           THEN /\ asm' = ("categorical_slots" :> result.categorical_slots)
                            @@ ("categorical_slots_by_service" :> result.by_service) @@ asm
                /\ pc' = "l586"
           ELSE Fails(result.outcome)
    /\ UNCHANGED <<schema, files, setOrder, ret, it, metadataFile, acc>>

\* Line 586
Main_get_entity_slots_map ==
    /\ pc = "l586"
    /\ asm' = ("entity_slots" :> get_entity_slots_map) @@ asm
    /\ pc' = "l587"
    /\ UNCHANGED <<schema, files, setOrder, ret, it, metadataFile, acc>>

\* A plausible slip: the output file opened before the metadata dict is built.
Main_metadata_openfirst ==
    /\ pc = "l587"
    /\ metadataFile' = CorruptFile
    /\ \E version \in {"9fceb02", "CalledProcessError"} :
            IF version = "CalledProcessError"
            THEN Fails(version)
            ELSE /\ asm' = ("metadata" :> metadata_dict(asm, version)) @@ asm
                 /\ pc' = "l609"
    /\ UNCHANGED <<schema, files, setOrder, ret, it, acc>>

\* Lines 587-607.  get_commit_hash runs git: it returns the hash of HEAD, or
\* raises when the directory is not a repository.
Main_metadata ==
    /\ pc = "l587"
    /\ \E version \in {"9fceb02", "CalledProcessError"} :
            IF version = "CalledProcessError"
            THEN Fails(version)
            ELSE /\ asm' = ("metadata" :> metadata_dict(asm, version)) @@ asm
                 /\ pc' = "l609"
    /\ UNCHANGED <<schema, files, setOrder, ret, it, metadataFile, acc>>

\* Line 609: open('metadata.json', 'w') creates or truncates the file.
Main_open ==
    /\ pc = "l609"
    /\ metadataFile' = CorruptFile
    /\ pc' = "l610"
    /\ UNCHANGED <<schema, files, setOrder, ret, it, asm, acc>>

\* Lines 610-611: json.dump, and the file is closed.
Main_dump ==
    /\ pc = "l610"
    /\ metadataFile' = [state |-> "written", content |-> asm.metadata]
    /\ pc' = "done"
    /\ UNCHANGED <<schema, files, setOrder, ret, it, asm, acc>>

\* A process imports metadata.py.
Import_metadata ==
    /\ acc.state = "unloaded"
    /\ acc' = accessor_import(metadataFile)
    /\ UNCHANGED <<schema, files, setOrder, ret, it, pc, asm, metadataFile>>

NextMeta ==
    \/ Main_get_intents_by_type
    \/ Main_get_dialogues_by_type
    \/ Main_get_binary_slots
    \/ Main_get_categorical_slots
    \/ Main_get_entity_slots_map
    \/ Main_metadata
    \/ Main_open
    \/ Main_dump
    \/ Import_metadata

SpecMeta == InitMeta /\ [][NextMeta]_vars

(***************************************************************************)
(* Claims about the assembler and the accessor.                            *)
(***************************************************************************)
\* The accessor was imported on the report of a run that reached its end.
ImportedReport ==
    /\ pc = "done"
    /\ metadataFile.state = "written"
    /\ acc.state # "unloaded"
    /\ "warning" \in DOMAIN acc => ~acc.warning

\* The members of the written lists, for a dict of lists and a dict of such dicts.
Members(d) == [key \in DOMAIN d |-> Range(d[key])]

NestedMembers(d) == [key \in DOMAIN d |-> Members(d[key])]

\* C4 (as stated): importing the accessor on a report written by a full run that
\* reached its end succeeds, and every set or mapping it exposes has exactly the
\* members of the list the assembler wrote for it: the intent sets, the
\* requestable, binary, categorical and entity slots with their breakdowns, and
\* the dialogue classifications.
CexC4_AccessorReproducesReport ==
    ImportedReport =>
        /\ acc.state = "loaded"
        /\ acc.ALL_INTENTS = Range(asm.metadata.ALL_INTENTS)
        /\ acc.SEARCH_INTENTS = Range(asm.metadata.SEARCH_INTENTS)
        /\ acc.TRANSACTIONAL_INTENTS = Range(asm.metadata.TRANSACTIONAL_INTENTS)
        /\ acc.REQUESTABLE_SLOTS = Range(asm.metadata.REQUESTABLE_SLOTS)
        /\ acc.BINARY_SLOTS = Range(asm.metadata.BINARY_SLOTS)
        /\ acc.BINARY_SLOTS_BY_SERVICE = Members(asm.metadata.BINARY_SLOTS_BY_SERVICE)
        /\ acc.CATEGORICAL_SLOTS = Range(asm.metadata.CATEGORICAL_SLOTS)
        /\ acc.CATEGORICAL_SLOTS_BY_SERVICE
                = NestedMembers(asm.metadata.CATEGORICAL_SLOTS_BY_SERVICE)
        /\ acc.ENTITY_SLOTS = NestedMembers(asm.metadata.ENTITY_SLOTS_BY_SERVICE)
        /\ acc.TRANSACTIONAL_DIALOGUES = Members(asm.metadata.TRANSACTIONAL_DIALOGUES)
        /\ acc.SEARCH_DIALOGUES = Members(asm.metadata.SEARCH_DIALOGUES)
        /\ acc.MIXED_INTENT_DIALOGUES = Members(asm.metadata.MIXED_INTENT_DIALOGUES)

(***************************************************************************)
(* Claims about the order of the classifier's buckets.                     *)
(***************************************************************************)
\* dial_sort_key(dialogue_id): (int(s1), int(s2))
dial_sort_key(dialogue_id) == <<IdFileIndex(dialogue_id), IdDialIndex(dialogue_id)>>

\* The IDs of the list are in non-decreasing order of dial_sort_key.
SortedByDialKey(ids) ==
    \A i, j \in 1..Len(ids) :
        i < j => ~StrLess(dial_sort_key(ids[j]), dial_sort_key(ids[i]))

\* C11 (as stated): in the result of get_dialogues_by_type, the IDs of every
\* label bucket of every split are in non-decreasing order of (file index,
\* within-file index), whatever the order in which the files were traversed.
CexC11_BucketsSortedByDialKey ==
    (ret.op = "get_dialogues_by_type" /\ ret.outcome = "returned") =>
        \A split \in DOMAIN ret.value :
            \A label \in {"transactional", "search", "mixed_intent"} :
                SortedByDialKey(GetList(ret.value[split], label))

(***************************************************************************)
(* Claims about system turns that carry several frames.                    *)
(***************************************************************************)
\* The dialogues of the split the entity-slot pass goes through: those of the
\* search-only filter and those of the mixed filter.
QualifyingDialogues(split) ==
    { d \in DialoguesOf(split) :
        \/ get_dialogue_intents(d) \subseteq DeclaredAnywhere(FALSE)
        \/ ~(get_dialogue_intents(d) \subseteq DeclaredAnywhere(TRUE)) }

\* A qualifying dialogue of the split has a system turn of more than one frame.
MeetsMultiFrameTurn(split) ==
    \E d \in QualifyingDialogues(split) : \E k \in 1..Len(d.turns) :
        d.turns[k].speaker = "SYSTEM" /\ Len(d.turns[k].frames) > 1

\* The first frames of the system turns of the qualifying dialogues that record a
\* call of the search intent on the service together with results.
FirstFramesCalling(split, service, intent) ==
    { d.turns[k].frames[1] :
        <<d, k>> \in { <<e, j>> \in QualifyingDialogues(split) \X (1..(2 * MaxUserTurns)) :
            /\ j <= Len(e.turns)
            /\ e.turns[j].speaker = "SYSTEM"
            /\ "service_call" \in DOMAIN e.turns[j].frames[1]
            /\ e.turns[j].frames[1].service = service
            /\ e.turns[j].frames[1].service_call.method = intent
            /\ intent \in DeclaredAnywhere(FALSE)
            /\ Len(e.turns[j].frames[1].service_results) > 0 } }

WritingPositions == {"l609", "l610", "done"}

\* The locals that hold what the extractors and the classifier returned.
ExtractionLocals ==
    {"_intents_by_type", "_dialogues_by_type", "binary_slots", "binary_slots_by_service",
     "categorical_slots", "categorical_slots_by_service", "entity_slots", "metadata"}

\* C14: metadata.json is touched only by the steps of lines 609-610, which run
\* once every extractor and the classifier have returned and the metadata dict
\* is built; a run fails only before line 609 and stays failed, and a run that
\* has reached line 609 never goes back: in a failed run the file was never
\* created, truncated or written.
ThmC14_ReportWrittenLast ==
    [][ /\ metadataFile' # metadataFile =>
                /\ pc \in {"l609", "l610"}
                /\ ExtractionLocals \subseteq DOMAIN asm
        /\ pc' = "failed" =>
                /\ pc \notin WritingPositions
                /\ metadataFile' = metadataFile
        /\ pc \in WritingPositions => pc' \in WritingPositions
        /\ pc \notin WritingPositions => metadataFile' = metadataFile ]_vars

\* C14 witness: a run ended by the assertion of get_categorical_slots, another
\* process having imported the accessor since, with no metadata.json on disk.
WitC14_AssertionFailedNoFile ==
    /\ pc = "failed"
    /\ asm.error = "AssertionError"
    /\ metadataFile = AbsentFile
    /\ acc.state = "loaded"

(***************************************************************************)
(* Claims about the accessor without a report.                             *)
(***************************************************************************)
\* The sets and mappings the accessor exposes: every attribute read from the
\* report but VERSION.
ExposedCollections == Range(AccessorReads) \ {"VERSION"}

\* The attribute is an empty set or an empty mapping.
EmptyCollection(key) ==
    IF acc.kinds[key] = "set" THEN acc[key] = {}
    ELSE IF acc.kinds[key] = "dict" THEN DOMAIN acc[key] = {}
    ELSE FALSE

\* C15 (as stated): importing the accessor while metadata.json is absent or
\* unparsable does not fail, logs a warning, and leaves every set or mapping it
\* exposes, SERVICES_TO_FILES included, an empty set or an empty mapping.
CexC15_DefaultsAreEmptyCollections ==
    (acc.state # "unloaded" /\ metadataFile.state \in {"absent", "corrupt"}) =>
        /\ acc.state = "loaded"
        /\ acc.warning
        /\ \A key \in ExposedCollections : EmptyCollection(key)

(***************************************************************************)
(* The turn generator.  dialogue_iterator is a generator function: the     *)
(* call returns a generator whose body, the test of lines 106-107           *)
(* included, runs from the first next() on.                                 *)
(***************************************************************************)
\* g = dialogue_iterator(dialogue, user, system)
new_dialogue_iterator(dialogue, user, system) ==
    [state |-> "suspended", started |-> FALSE, dialogue |-> dialogue,
     user |-> user, system |-> system, yielded |-> <<>>]

\* next(g): lines 106-107 on the first resumption, then the loop of lines
\* 111-115 up to its next yield or its end.
resume_dialogue_iterator(g) ==
    IF (~g.user) /\ (~g.system)
    THEN [g EXCEPT !.state = "ValueError", !.started = TRUE]
    ELSE LET turns == dialogue_iterator(g.dialogue, g.user, g.system)
         IN  IF Len(g.yielded) < Len(turns)
             THEN [g EXCEPT !.started = TRUE,
                            !.yielded = Append(@, turns[Len(g.yielded) + 1])]
             ELSE [g EXCEPT !.state = "done", !.started = TRUE]

(***************************************************************************)
(* Dialogues for the turn generator: every sequence of at most MaxTurns    *)
(* USER and SYSTEM turns, the utterances numbered to tell the turns apart. *)
(***************************************************************************)
MaxTurns == 3   \* turns per dialogue

NumberedTurn(speaker, k) ==
    [speaker |-> speaker, utterance |-> k, frames |-> <<>>]

TurnDialogues ==
    { [dialogue_id |-> <<1, 0>>, services |-> <<"Svc_1">>,
       turns |-> [k \in 1..n |-> NumberedTurn(speakers[k], k)]] :
        n \in 0..MaxTurns, speakers \in [1..MaxTurns -> {"USER", "SYSTEM"}] }

TurnCorpora ==
    { [s \in SplitSet |-> (1 :> << dialogue >>)] : dialogue \in TurnDialogues }

InitTurns ==
    /\ schema = DialogueSchema
    /\ files \in TurnCorpora
    /\ setOrder \in {"asc", "desc"}
    /\ Idle

\* g = dialogue_iterator(dialogue, user, system) for the dialogue of
\* train/dialogues_001.json
Call_dialogue_iterator(user, system) ==
    /\ it.state = "idle"
    /\ it' = new_dialogue_iterator(dial_bunch(<<"train", 1>>)[1], user, system)
    /\ UNCHANGED <<schema, files, setOrder, ret, pc, asm, metadataFile, acc>>

\* next(g)
Next_dialogue_iterator ==
    /\ it.state = "suspended"
    /\ it' = resume_dialogue_iterator(it)
    /\ UNCHANGED <<schema, files, setOrder, ret, pc, asm, metadataFile, acc>>

NextTurns ==
    \/ \E user \in BOOLEAN, system \in BOOLEAN : Call_dialogue_iterator(user, system)
    \/ Next_dialogue_iterator

SpecTurns == InitTurns /\ [][NextTurns]_vars

\* The speakers the caller asked for.
RequestedSpeakers(user, system) ==
    (IF user THEN {"USER"} ELSE {}) \cup (IF system THEN {"SYSTEM"} ELSE {})

\* The turns of the requested speakers, in the dialogue's turn order.
RequestedTurns(dialogue, user, system) ==
    SelectSeq(dialogue.turns,
              LAMBDA turn : turn.speaker \in RequestedSpeakers(user, system))

IsPrefix(s, t) == Len(s) <= Len(t) /\ \A k \in 1..Len(s) : s[k] = t[k]

\* C16: the turns dialogue_iterator has yielded are at every moment the first
\* ones of the requested speakers' turns in dialogue order, and all of them once
\* it is exhausted; with both flags false its first resumption raises ValueError
\* and it never yields a turn.
ThmC16_YieldsRequestedSpeakers ==
    it.state # "idle" =>
        /\ it.state \in {"suspended", "done", "ValueError"}
        /\ IF (~it.user) /\ (~it.system)
           THEN /\ it.yielded = <<>>
                /\ it.state # "done"
                /\ it.started => it.state = "ValueError"
           ELSE /\ it.state # "ValueError"
                /\ IsPrefix(it.yielded, RequestedTurns(it.dialogue, it.user, it.system))
                /\ it.state = "done" =>
                        it.yielded = RequestedTurns(it.dialogue, it.user, it.system)
                /\ it.started /\ it.state = "suspended" => Len(it.yielded) > 0

\* A SYSTEM, USER, SYSTEM dialogue iterated for its system turns only: the
\* first and the third turn have been yielded and the generator is exhausted.
WitC16_SystemTurnsOfMixedDialogue ==
    /\ it.state = "done"
    /\ ~it.user /\ it.system
    /\ [k \in 1..Len(it.dialogue.turns) |-> it.dialogue.turns[k].speaker]
            = <<"SYSTEM", "USER", "SYSTEM">>
    /\ [k \in 1..Len(it.yielded) |-> it.yielded[k].utterance] = <<1, 3>>

(***************************************************************************)
(* Claims about the multi-service dialogue listing.                         *)
(***************************************************************************)
\* The IDs of the dialogues of the split whose 'services' list names more than
\* one service.
MultiServiceIds(split) ==
    { split_iterator(split)[k][2].dialogue_id :
        k \in { j \in 1..Len(split_iterator(split)) :
                    Cardinality(Range(split_iterator(split)[j][2].services)) > 1 } }

\* C17 (as stated): the report's MULTIPLE_SERVICES_DIALOGUES, the value of
\* get_multiple_services_dialogues, lists under each split exactly the IDs of the
\* dialogues of that split that name more than one service.
CexC17_OnlyMultiServiceDialoguesListed ==
    "metadata" \in DOMAIN asm =>
        \A split \in DOMAIN asm.metadata.MULTIPLE_SERVICES_DIALOGUES :
            Range(asm.metadata.MULTIPLE_SERVICES_DIALOGUES[split]) = MultiServiceIds(split)

(***************************************************************************)
(* Schemas for the categorical-slot extractor: Svc_1 is declared by every  *)
(* split, its slot a independently non-categorical, categorical with one   *)
(* of two value lists, or binary in each of them; Svc_2 is declared by dev *)
(* only.                                                                   *)
(***************************************************************************)
SlotChoices ==
    { [name |-> SLOT_a, is_categorical |-> FALSE, possible_values |-> <<>>],
      [name |-> SLOT_a, is_categorical |-> TRUE, possible_values |-> <<STR_2, STR_1a>>],
      [name |-> SLOT_a, is_categorical |-> TRUE, possible_values |-> <<STR_2, STR_1a, STR_0>>],
      [name |-> SLOT_a, is_categorical |-> TRUE, possible_values |-> <<STR_0, STR_1>>],
      [name |-> SLOT_a, is_categorical |-> TRUE, possible_values |-> <<STR_True, STR_False>>] }

OtherSlot == [name |-> SLOT_c, is_categorical |-> TRUE,
              possible_values |-> <<STR_2, STR_1a>>]

CategoricalSchemas ==
    { [s \in SplitSet |->
        IF s = "train" THEN << Service("Svc_1", <<>>, <<a1, FixedSlot>>) >>
        ELSE IF s = "dev"
        THEN << Service("Svc_2", <<>>, <<OtherSlot>>), Service("Svc_1", <<>>, <<a2, FixedSlot>>) >>
        ELSE << Service("Svc_1", <<>>, <<a3, FixedSlot>>) >>] :
        a1 \in SlotChoices, a2 \in SlotChoices, a3 \in SlotChoices }

InitCategorical ==
    /\ schema \in CategoricalSchemas
    /\ files = [s \in SplitSet |-> <<>>]
    /\ setOrder \in {"asc", "desc"}
    /\ Idle

\* get_binary_slots()
Call_get_binary_slots ==
    /\ NoCallYet
    /\ ret' = [op |-> "get_binary_slots"] @@ get_binary_slots
    /\ UNCHANGED <<schema, files, setOrder, it, pc, asm, metadataFile, acc>>

\* The assembler's call (lines 582-585): get_categorical_slots applied to the
\* per-service lists get_binary_slots returns.
Call_get_categorical_slots ==
    /\ NoCallYet
    /\ ret' = [op |-> "get_categorical_slots",
               binary_slots_by_service |-> get_binary_slots.by_service]
                @@ get_categorical_slots(get_binary_slots.by_service)
    /\ UNCHANGED <<schema, files, setOrder, it, pc, asm, metadataFile, acc>>

NextCategorical ==
    \/ Call_get_binary_slots
    \/ Call_get_categorical_slots

SpecCategorical == InitCategorical /\ [][NextCategorical]_vars

(***************************************************************************)
(* Claims about the categorical-slot extractor.                             *)
(***************************************************************************)
\* The slots of the service dict that are flagged categorical and whose name is
\* not in the list.
CategoricalOutside(service, binary_slots) ==
    { slot \in Range(service.slots) :
        slot.is_categorical /\ ~InList(slot.name, binary_slots) }

\* Two schemas declare the service with the same slot categorical, binary in
\* neither of the two and outside the service's binary-slot list, and with
\* different possible-value lists.
DisagreeingSchemas(binary_slots_by_service) ==
    \E s1 \in SplitSet, s2 \in SplitSet :
        \E x \in Range(schema_iterator(s1)), y \in Range(schema_iterator(s2)) :
            /\ x.service_name = y.service_name
            /\ \E p \in CategoricalOutside(x, binary_slots_by_service[x.service_name]),
                  q \in CategoricalOutside(y, binary_slots_by_service[y.service_name]) :
                    /\ p.name = q.name
                    /\ p.name \notin _find_service_binary_slots(x)[x.service_name]
                    /\ q.name \notin _find_service_binary_slots(y)[y.service_name]
                    /\ p.possible_values # q.possible_values

\* C18 (as stated): when two schemas of a service give one of its categorical,
\* non-binary slots different possible-value lists, get_categorical_slots fails
\* with an AssertionError.
CexC18_DisagreementAlwaysAsserted ==
    (ret.op = "get_categorical_slots" /\ DisagreeingSchemas(ret.binary_slots_by_service))
        => ret.outcome = "AssertionError"

\* The first service of the list that bears the name: line 272 stores the
\* categorical slots of a service the first time the service is met.
FirstOccurrence(services, name) ==
    services[CHOOSE k \in 1..Len(services) :
                /\ services[k].service_name = name
                /\ \A j \in 1..(k - 1) : services[j].service_name # name]

\* The map describes the service dict: its keys are the dict's categorical slots
\* outside the service's binary-slot list, each with the dict's value list.
DescribesService(cat_slots, service, binary_slots) ==
    /\ DOMAIN cat_slots = { slot.name : slot \in CategoricalOutside(service, binary_slots) }
    /\ \A slot \in CategoricalOutside(service, binary_slots) :
            cat_slots[slot.name] = slot.possible_values

ScanCase ==
    /\ it.state # "idle"
    /\ it.return_only # {}
    /\ missing_dialogues(dial_bunch(it.filename))

\* The positions of the file, up to `last`, whose dialogue has a requested ID.
RequestedPositions(last) ==
    { k \in 1..last : dial_bunch(it.filename)[k].dialogue_id \in it.return_only }

\* The (filename, dialogue) pairs of those positions, in file order.
RequestedPairs(last) ==
    [k \in 1..Cardinality(RequestedPositions(last)) |->
        <<it.filename, dial_bunch(it.filename)[Increasing(RequestedPositions(last))[k]]>>]

\* The position at which every ID of return_only has been met, or 0 when the
\* file lacks one of them.
CompletePosition ==
    IF it.return_only \subseteq FileIds(it.filename)
    THEN CHOOSE k \in RequestedPositions(Len(dial_bunch(it.filename))) :
            \A j \in RequestedPositions(Len(dial_bunch(it.filename))) : j <= k
    ELSE 0

\* C20: on a file with a missing dialogue and for a non-empty return_only,
\* file_iterator examines the dialogues in file order and has at every moment
\* yielded exactly the examined ones whose ID is requested; it examines no
\* dialogue beyond the one with which every requested ID has been yielded, and
\* ends there, or at the end of the file when a requested ID is not in the file.
ThmC20_ScanStopsWhenComplete ==
    ScanCase =>
        /\ it.state \in {"suspended", "done"}
        /\ it.pos \in 0..Len(dial_bunch(it.filename))
        /\ it.yielded = RequestedPairs(it.pos)
        /\ it.returned = YieldedIds
        /\ CompletePosition # 0 => it.pos <= CompletePosition
        /\ it.state = "done" =>
                /\ it.yielded = RequestedPairs(Len(dial_bunch(it.filename)))
                /\ it.pos = IF CompletePosition # 0 THEN CompletePosition
                            ELSE Len(dial_bunch(it.filename))

\* The file holds the dialogues 1_00000 and 1_00002 and only the first is
\* requested: it was yielded and the generator ended without examining the
\* second.
WitC20_SecondDialogueNotExamined ==
    /\ ScanCase
    /\ it.state = "done"
    /\ FileIds(it.filename) = {<<1, 0>>, <<1, 2>>}
    /\ it.return_only = {<<1, 0>>}
    /\ YieldedIds = {<<1, 0>>}
    /\ it.pos = 1

(***************************************************************************)
(* The entity-slot pass frame by frame.  The train file holds three        *)
(* dialogues of intent Find; each ends with a system turn that records a   *)
(* call of Find on Svc_1 or Svc_2 and mentions some slots, the last one    *)
(* possibly a call without results.                                        *)
(***************************************************************************)
SecondTurns ==
    { CallTurn("Svc_1", INTENT_Find, 1, <<>>),
      CallTurn("Svc_1", INTENT_Find, 1, <<SLOT_a>>),
      CallTurn("Svc_1", INTENT_Find, 1, <<SLOT_a, SLOT_b>>),
      CallTurn("Svc_2", INTENT_Find, 1, <<SLOT_a>>),
      CallTurn("Svc_2", INTENT_Find, 1, <<SLOT_b>>) }

ThirdTurns ==
    { CallTurn("Svc_1", INTENT_Find, 1, <<SLOT_b>>),
      CallTurn("Svc_1", INTENT_Find, 1, <<SLOT_a, SLOT_b>>),
      CallTurn("Svc_2", INTENT_Find, 1, <<SLOT_a, SLOT_b>>),
      CallTurn("Svc_1", INTENT_Find, 0, <<SLOT_a>>) }

PassCorpora ==
    { [s \in SplitSet |->
        IF s = "train"
        THEN (1 :> << Dialogue(1, 0, <<INTENT_Find>>, ClosedBy(1, t1)),
                      Dialogue(1, 1, <<INTENT_Find>>, ClosedBy(1, t2)),
                      Dialogue(1, 2, <<INTENT_Find>>, ClosedBy(1, t3)) >>)
        ELSE (1 :> << Dialogue(1, 0, <<INTENT_Buy>>, PlainTurns(1)) >>)] :
        t1 \in SearchCallTurns, t2 \in SecondTurns, t3 \in ThirdTurns }

InitPass ==
    /\ schema = DialogueSchema
    /\ files \in PassCorpora
    /\ setOrder \in {"asc", "desc"}
    /\ Idle

\* _get_entity_slots(split) up to the loop of line 364: the dialogues are
\* selected, the map is empty.
Begin_get_entity_slots(split) ==
    /\ NoCallYet
    /\ ret' = [op |-> "_get_entity_slots", split |-> split, outcome |-> "running",
               pos |-> 0, value |-> <<>>]
    /\ UNCHANGED <<schema, files, setOrder, it, pc, asm, metadataFile, acc>>

\* The loop runs up to and through the next frame that passes the tests of
\* lines 367-371: lines 372-377 update the map with it.
Step_get_entity_slots ==
    /\ ret.op = "_get_entity_slots" /\ ret.outcome = "running"
    /\ ret.pos < Len(qualifying_frames(ret.split))
    /\ ret' = [op |-> ret.op, split |-> ret.split, outcome |-> "running",
               pos |-> ret.pos + 1,
               frame |-> qualifying_frames(ret.split)[ret.pos + 1],
               value |-> entity_step(ret.value, qualifying_frames(ret.split)[ret.pos + 1])]
    /\ UNCHANGED <<schema, files, setOrder, it, pc, asm, metadataFile, acc>>

\* No frame is left that passes: line 378 returns the map.
Return_get_entity_slots ==
    /\ ret.op = "_get_entity_slots" /\ ret.outcome = "running"
    /\ ret.pos = Len(qualifying_frames(ret.split))
    /\ ret' = [ret EXCEPT !.outcome = "returned"]
    /\ UNCHANGED <<schema, files, setOrder, it, pc, asm, metadataFile, acc>>

NextPass ==
    \/ \E split \in SplitSet : Begin_get_entity_slots(split)
    \/ Step_get_entity_slots
    \/ Return_get_entity_slots

SpecPass == InitPass /\ [][NextPass]_vars

(***************************************************************************)
(* Claims about the running intersection.                                   *)
(***************************************************************************)
\* The frames of the system turns of the split, whatever the dialogue and the
\* position in the turn, that record a call of the intent on the service with a
\* non-empty result list, the intent being a search intent.
SystemFramesCalling(split, service, intent) ==
    { frame \in UNION { UNION { Range(d.turns[k].frames) :
                                    k \in { j \in 1..Len(d.turns) :
                                                d.turns[j].speaker = "SYSTEM" } } :
                            d \in DialoguesOf(split) } :
        /\ "service_call" \in DOMAIN frame
        /\ frame.service = service
        /\ frame.service_call.method = intent
        /\ intent \in DeclaredAnywhere(FALSE)
        /\ Len(frame.service_results) > 0 }

PassPairs == {"Svc_1", "Svc_2"} \X ActiveIntents

Held(map, pair) == map[pair[1]][pair[2]]

\* One step of the pass: the pair of the frame is seeded with the frame's
\* mentioned slots or intersected with them; no other pair changes, no pair is
\* dropped and no set gains a slot.
SeedOrShrink ==
    ret.op = "_get_entity_slots" /\ ret'.op = "_get_entity_slots" =>
        \A pair \in PassPairs :
            /\ HasEntry(ret.value, pair[1], pair[2]) =>
                /\ HasEntry(ret'.value, pair[1], pair[2])
                /\ Held(ret'.value, pair) \subseteq Held(ret.value, pair)
                /\ Held(ret'.value, pair) =
                        IF ret'.pos # ret.pos
                           /\ pair = <<ret'.frame.service, ret'.frame.service_call.method>>
                        THEN Held(ret.value, pair) \cap mentioned_slots(ret'.frame)
                        ELSE Held(ret.value, pair)
            /\ (~HasEntry(ret.value, pair[1], pair[2])
                    /\ HasEntry(ret'.value, pair[1], pair[2])) =>
                /\ ret'.pos # ret.pos
                /\ pair = <<ret'.frame.service, ret'.frame.service_call.method>>
                /\ Held(ret'.value, pair) = mentioned_slots(ret'.frame)

\* At the end of the pass a pair has a set exactly if a frame of the split
\* qualifies for it, and the set is the intersection of the mentioned-slot sets
\* of all those frames.
EndsAsIntersection ==
    (ret.op = "_get_entity_slots" /\ ret.outcome = "returned") =>
        \A pair \in PassPairs :
            /\ HasEntry(ret.value, pair[1], pair[2])
                    <=> SystemFramesCalling(ret.split, pair[1], pair[2]) # {}
            /\ HasEntry(ret.value, pair[1], pair[2]) =>
                    Held(ret.value, pair) =
                        { slot \in Range(SlotNames) :
                            \A frame \in SystemFramesCalling(ret.split, pair[1], pair[2]) :
                                slot \in mentioned_slots(frame) }

FileIndexes == {2, 10, 999, 1000}

ServiceLists == { <<"Svc_1">>, <<"Svc_2">>, <<"Svc_1", "Svc_2">> }

FilesSchema ==
    [s \in SplitSet |->
        IF s = "train"
        THEN << Service("Svc_1", << Intent(INTENT_Find, FALSE) >>, <<>>),
                Service("Svc_2", << Intent(INTENT_Find, FALSE) >>, <<>>),
                Service("Svc_3", << Intent(INTENT_Find, FALSE) >>, <<>>) >>
        ELSE IF s = "dev"
        THEN << Service("Svc_1", << Intent(INTENT_Find, FALSE) >>, <<>>) >>
        ELSE <<>>]

FilesCorpora ==
    { [s \in SplitSet |->
        IF s = "train"
        THEN [f \in F |-> << Requesting(Dialogue(f, 0, <<INTENT_Find>>, PlainTurns(1)),
                                        <<>>, services[f]) >>]
        ELSE (1 :> << Dialogue(1, 0, <<INTENT_Find>>, PlainTurns(1)) >>)] :
        <<F, services>> \in
            { <<G, sv>> \in (SUBSET FileIndexes) \X [FileIndexes -> ServiceLists] :
                \A f \in FileIndexes \ G : sv[f] = <<"Svc_1">> } }

InitFiles ==
    /\ schema = FilesSchema
    /\ files \in FilesCorpora
    /\ setOrder \in {"asc", "desc"}
    /\ Idle

\* get_service_to_file_map()
Call_get_service_to_file_map ==
    /\ NoCallYet
    /\ ret' = [op |-> "get_service_to_file_map", outcome |-> "returned",
               value |-> get_service_to_file_map]
    /\ UNCHANGED <<schema, files, setOrder, it, pc, asm, metadataFile, acc>>

\* get_file_services(filename)
Call_get_file_services(filename) ==
    /\ NoCallYet
    /\ filename[2] \in DOMAIN files[filename[1]]
    /\ ret' = [op |-> "get_file_services", filename |-> filename,
               outcome |-> "returned", value |-> get_file_services(filename)]
    /\ UNCHANGED <<schema, files, setOrder, it, pc, asm, metadataFile, acc>>

NextFiles ==
    \/ Call_get_service_to_file_map
    \/ \E f \in FileIndexes : Call_get_file_services(<<"train", f>>)

SpecFiles == InitFiles /\ [][NextFiles]_vars

(***************************************************************************)
(* Claims about the service-to-file map.                                    *)
(***************************************************************************)
\* The files of the split with a dialogue that declares the service.
FilesDeclaring(split, service) ==
    { <<split, f>> : f \in { g \in DOMAIN files[split] :
        \E k \in 1..Len(files[split][g]) : InList(service, files[split][g][k].services) } }

\* dial_files_sort_key of the path of a file: its index, as a number.
dial_files_sort_key(fp) == fp[2]

\* C22 (as stated): get_service_to_file_map lists, for every split and every
\* service of the split's schema, exactly the files of the split with a dialogue
\* that declares the service, in increasing order of the numeric file index.
CexC22_FilesInNumericOrder ==
    ret.op = "get_service_to_file_map" =>
        \A split \in SplitSet : \A service \in get_services(split) :
            /\ Range(ret.value[split][service]) = FilesDeclaring(split, service)
            /\ Len(ret.value[split][service]) = Cardinality(FilesDeclaring(split, service))
            /\ \A i, j \in 1..Len(ret.value[split][service]) :
                    i < j => dial_files_sort_key(ret.value[split][service][i])
                                < dial_files_sort_key(ret.value[split][service][j])

(***************************************************************************)
(* Claims about an empty set of requested IDs.                              *)
(***************************************************************************)
\* C23 (as stated): file_iterator(file, return_only=S) and split_iterator(split,
\* return_only=S) yield no dialogue when S is the empty set.
CexC23_EmptySetYieldsNothing ==
    /\ (it.state # "idle" /\ it.return_only = {}) => it.yielded = <<>>
    /\ (ret.op = "split_iterator" /\ ret.return_only = {}) => ret.value = <<>>

(***************************************************************************)
(* Schemas with long names: Svc_1 declares any of three intents and any of *)
(* three binary slots; two of the intent names and two of the slot names   *)
(* agree on their first n_chars characters.                                *)
(***************************************************************************)
INTENT_FindRestaurants ==
    <<70, 105, 110, 100, 82, 101, 115, 116, 97, 117, 114, 97, 110, 116, 115>>
INTENT_FindRestaurantsNearby ==
    <<70, 105, 110, 100, 82, 101, 115, 116, 97, 117, 114, 97, 110, 116, 115,
      78, 101, 97, 114, 98, 121>>
SLOT_has_seating_outdoors ==
    <<104, 97, 115, 95, 115, 101, 97, 116, 105, 110, 103, 95,
      111, 117, 116, 100, 111, 111, 114, 115>>
SLOT_has_seating_indoors ==
    <<104, 97, 115, 95, 115, 101, 97, 116, 105, 110, 103, 95,
      105, 110, 100, 111, 111, 114, 115>>

LongIntentNames == {INTENT_Buy, INTENT_FindRestaurants, INTENT_FindRestaurantsNearby}
LongSlotNames == {SLOT_b, SLOT_has_seating_outdoors, SLOT_has_seating_indoors}

BinarySlot(name) ==
    [name |-> name, is_categorical |-> TRUE, possible_values |-> <<STR_True, STR_False>>]

NameSchemas ==
    { [s \in SplitSet |->
        IF s = "train"
        THEN << Service("Svc_1",
                    [k \in 1..Cardinality(I) |-> Intent(Ascending(I)[k], Ascending(I)[k] = INTENT_Buy)],
                    [k \in 1..Cardinality(B) |-> BinarySlot(Ascending(B)[k])]) >>
        ELSE <<>>] :
        I \in SUBSET LongIntentNames, B \in SUBSET LongSlotNames }

InitNames ==
    /\ schema \in NameSchemas
    /\ files = [s \in SplitSet |-> <<>>]
    /\ setOrder \in {"asc", "desc"}
    /\ Idle

NextNames ==
    \/ Call_get_intents_by_type
    \/ Call_get_binary_slots

SpecNames == InitNames /\ [][NextNames]_vars

(***************************************************************************)
(* Claims about the order of the sorted lists.                              *)
(***************************************************************************)
\* The list is what sorting its members by alphabetical_sort_key gives whatever
\* the order in which the set of its members is iterated.
SameUnderEveryIteration(l) ==
    \A order \in {"asc", "desc"} : l = sorted_alphabetical(iteration(Range(l), order))

\* C24 (as stated): the lists get_intents_by_type and get_binary_slots obtain by
\* sorting a set with alphabetical_sort_key depend on the members of the set
\* only, not on the order in which the run iterates the set.
CexC24_SortedListsDeterministic ==
    /\ ret.op = "get_intents_by_type" =>
            /\ SameUnderEveryIteration(ret.value.transactional)
            /\ SameUnderEveryIteration(ret.value.search)
    /\ ret.op = "get_binary_slots" => SameUnderEveryIteration(ret.binary_slots)

(***************************************************************************)
(* Claims about the agreement of the two categorical results.               *)
(***************************************************************************)
\* C25 (as stated): the corpus-wide list of categorical slot names that
\* get_categorical_slots returns holds exactly the names that are a key under
\* some service of the per-service map it returns.
CexC25_ListMatchesMapKeys ==
    (ret.op = "get_categorical_slots" /\ ret.outcome = "returned") =>
        Range(ret.categorical_slots)
            = UNION { DOMAIN ret.by_service[name] : name \in DOMAIN ret.by_service }

(***************************************************************************)
(* Claims about the three intent-type filters together.                     *)
(***************************************************************************)
FilterFlags == { <<TRUE, FALSE>>, <<FALSE, TRUE>>, <<TRUE, TRUE>> }

\* The flag pairs whose filter lists the dialogue under the key of the file.
FiltersListing(split, fp, dial) ==
    { flags \in FilterFlags :
        /\ fp \in DOMAIN filter_by_intent_type(split, flags[1], flags[2]).value
        /\ dial.dialogue_id \in filter_by_intent_type(split, flags[1], flags[2]).value[fp] }

\* C26 (as stated): every dialogue of a split is listed, under the key of its
\* backing file, by exactly one of filter_by_intent_type(split, True, False),
\* (split, False, True) and (split, True, True).
CexC26_FiltersPartitionSplit ==
    (ret.op = "filter_by_intent_type" /\ ret.outcome = "returned") =>
        \A k \in 1..Len(split_iterator(ret.split)) :
            Cardinality(FiltersListing(ret.split, split_iterator(ret.split)[k][1],
                                       split_iterator(ret.split)[k][2])) = 1

====
